---- MODULE Spec2Model ----
(***************************************************************************)
(* Trade reconciliation: the matching orchestrator, the fuzzy matcher, the *)
(* break deriver and the run bookkeeping of the reconciliation task and    *)
(* of the HTTP endpoint, over a database shared by worker sessions.        *)
(*                                                                         *)
(* Text is a sequence of one-character strings.  Scores are exact          *)
(* rationals [n, d]; quantities are whole units, prices ten-thousandths,   *)
(* times are minutes.  NULL columns hold NULL (text) or NoId (ids).        *)
(***************************************************************************)
EXTENDS Integers, Sequences, FiniteSets, TLC

VARIABLES trades, breaks, runs, sess, clock, env, invs, writes, work, requests

vars == <<trades, breaks, runs, sess, clock, env, invs, writes, work, requests>>

-----------------------------------------------------------------------------
(* Bounds of the model *)

MaxRuns == 2
MaxTicks == 1

-----------------------------------------------------------------------------
(* Text *)

NULL == <<"NULL">>
\* None in a column of names
None == "None"
NoId == 0

Truthy(s) == s # NULL /\ s # <<>>

Lowers == <<"a","b","c","d","e","f","g","h","i","j","k","l","m",
            "n","o","p","q","r","s","t","u","v","w","x","y","z">>
Uppers == <<"A","B","C","D","E","F","G","H","I","J","K","L","M",
            "N","O","P","Q","R","S","T","U","V","W","X","Y","Z">>

UpperLetters == {Uppers[i] : i \in DOMAIN Uppers}

ToUpper(c) ==
    IF \E i \in DOMAIN Lowers : Lowers[i] = c
    THEN Uppers[CHOOSE i \in DOMAIN Lowers : Lowers[i] = c]
    ELSE c

Upper(s) == [i \in DOMAIN s |-> ToUpper(s[i])]

RECURSIVE StripLeft(_)
StripLeft(s) == IF s # <<>> /\ Head(s) = " " THEN StripLeft(Tail(s)) ELSE s

RECURSIVE StripRight(_)
StripRight(s) ==
    IF s # <<>> /\ s[Len(s)] = " " THEN StripRight(SubSeq(s, 1, Len(s) - 1)) ELSE s

Strip(s) == StripRight(StripLeft(s))

RemoveSpaces(s) == SelectSeq(s, LAMBDA c : c # " ")

\* re.sub(r'\.[A-Z]{1,4}$', '', s): a final "." followed by one to four
\* upper-case letters is cut off.
ExchangeSuffixAt(s, k) ==
    /\ k \in 1..4
    /\ Len(s) >= k + 1
    /\ s[Len(s) - k] = "."
    /\ \A i \in (Len(s) - k + 1)..Len(s) : s[i] \in UpperLetters

StripExchangeSuffix(s) ==
    IF \E k \in 1..4 : ExchangeSuffixAt(s, k)
    THEN LET k == CHOOSE k \in 1..4 : ExchangeSuffixAt(s, k)
         IN  SubSeq(s, 1, Len(s) - k - 1)
    ELSE s

normalize_symbol(symbol) ==
    IF ~Truthy(symbol) THEN <<>>
    ELSE RemoveSpaces(StripExchangeSuffix(Strip(Upper(symbol))))

\* Counterparty names of the model and what normalize_counterparty makes of them.
GS_LLC == <<"G","S"," ","L","L","C">>
GS == <<"G","S">>
MS == <<"M","S">>

normalize_counterparty(cp) ==
    IF ~Truthy(cp) THEN <<>>
    ELSE IF cp = GS_LLC THEN GS
    ELSE Strip(Upper(cp))

Digit(n) == <<"0","1","2","3","4","5","6","7","8","9">>[n + 1]

RECURSIVE Digits(_)
Digits(n) == IF n < 10 THEN <<Digit(n)>> ELSE Append(Digits(n \div 10), Digit(n % 10))

\* str() of a float holding a whole number of units: 100.0
StrUnits(q) == Digits(q) \o <<".", "0">>

\* Prices are held in ten-thousandths.
PriceScale == 10000

\* f written on w digits
RECURSIVE FixedDigits(_, _)
FixedDigits(f, w) ==
    IF w = 0 THEN <<>> ELSE Append(FixedDigits(f \div 10, w - 1), Digit(f % 10))

\* The digits of a fraction f of w digits, without trailing zeros but for the first.
RECURSIVE Fraction(_, _)
Fraction(f, w) ==
    IF w > 1 /\ f % 10 = 0 THEN Fraction(f \div 10, w - 1) ELSE FixedDigits(f, w)

\* str() of a float holding a price: 200.0, 0.5, 0.506, 0.0506
StrPrice(price) ==
    Digits(price \div PriceScale) \o <<".">> \o Fraction(price % PriceScale, 4)

\* str() of a datetime, shortened to day and hour
StrDate(d) == Digits(d.day) \o <<" ">> \o Digits(d.hour)

StrText(s) == IF s = NULL THEN <<"N","o","n","e">> ELSE s

-----------------------------------------------------------------------------
(* Exact rationals *)

\* The one element of a singleton.  In Only({e(x) : x \in {v}}) the value v
\* is worked out once, however often e uses it.
Only(S) == CHOOSE x \in S : TRUE

Abs(x) == IF x < 0 THEN -x ELSE x
Max(a, b) == IF a >= b THEN a ELSE b

RECURSIVE GCD(_, _)
GCD(a, b) == IF b = 0 THEN a ELSE GCD(b, a % b)

Rat(n, d) == LET g == GCD(Abs(n), d) IN [n |-> n \div g, d |-> d \div g]

Zero == Rat(0, 1)
One == Rat(1, 1)
NoScore == [n |-> 0, d |-> 0]

RatAdd(a, b) == Rat(a.n * b.d + b.n * a.d, a.d * b.d)
RatSub(a, b) == Rat(a.n * b.d - b.n * a.d, a.d * b.d)
RatMul(a, b) == Rat(a.n * b.n, a.d * b.d)
RatLt(a, b) == a.n * b.d < b.n * a.d
RatGeq(a, b) == ~RatLt(a, b)
RatMax(a, b) == IF RatGeq(a, b) THEN a ELSE b

-----------------------------------------------------------------------------
(* Fuzzy matcher (configuration defaults of Settings) *)

auto_match_threshold == Rat(95, 100)
manual_review_threshold == Rat(75, 100)
price_tolerance_pct == Rat(1, 100)
quantity_tolerance == Zero

Fields == <<"symbol", "trade_date", "side", "quantity", "price", "counterparty">>

weights ==
    [symbol |-> Rat(25, 100), trade_date |-> Rat(15, 100), side |-> Rat(15, 100),
     quantity |-> Rat(20, 100), price |-> Rat(15, 100), counterparty |-> Rat(10, 100)]

\* Length of the longest common subsequence; fuzz.ratio is 2 * LCS / (|a| + |b|).
RECURSIVE LCS(_, _)
LCS(a, b) ==
    IF a = <<>> \/ b = <<>> THEN 0
    ELSE IF Head(a) = Head(b) THEN 1 + LCS(Tail(a), Tail(b))
    ELSE Max(LCS(Tail(a), b), LCS(a, Tail(b)))

FuzzRatio(a, b) == Rat(2 * LCS(a, b), Len(a) + Len(b))

_as_date(value) == value.day

_match_symbol(sym1, sym2) ==
    IF ~Truthy(sym1) \/ ~Truthy(sym2) THEN Zero
    ELSE IF sym1 = sym2 THEN One
    ELSE LET similarity == FuzzRatio(sym1, sym2)
         IN  IF RatGeq(similarity, Rat(9, 10)) THEN similarity ELSE Zero

_match_quantity(qty1, qty2) ==
    LET diff == Abs(qty1 - qty2)
        denom == Max(Max(Abs(qty1), Abs(qty2)), 1)
    IN  IF RatGeq(quantity_tolerance, Rat(diff, 1)) THEN One
        ELSE RatMax(Zero, RatSub(One, Rat(diff, denom)))

\* The 1e-9 floors of the code never bind on prices in ten-thousandths.
_match_price(price1, price2) ==
    IF price1 = price2 THEN One
    ELSE LET denom == Max(Abs(price1), Abs(price2))
             pct_diff == Rat(Abs(price1 - price2), denom)
         IN  IF RatGeq(price_tolerance_pct, pct_diff) THEN One
             ELSE RatMax(Zero, RatSub(One, RatMul(pct_diff, Rat(price_tolerance_pct.d, price_tolerance_pct.n))))

\* 0.4 * token_sort_ratio + 0.4 * token_set_ratio + 0.2 * jaro_winkler of the
\* model's counterparty names, as rapidfuzz and jellyfish compute them.
CounterpartyBlend(cp1, cp2) ==
    IF {cp1, cp2} = {GS, MS} THEN Rat(8, 15)
    ELSE IF {cp1, cp2} = {GS_LLC, GS} THEN Rat(172, 225)
    ELSE IF {cp1, cp2} = {GS_LLC, MS} THEN Rat(14, 45)
    ELSE Zero

\* The blend without the test for equal names.
BlendAlways(cp1, cp2) ==
    IF ~Truthy(cp1) \/ ~Truthy(cp2) THEN Rat(1, 2)
    ELSE CounterpartyBlend(cp1, cp2)

_match_counterparty(cp1, cp2) ==
    IF ~Truthy(cp1) \/ ~Truthy(cp2) THEN Rat(1, 2)
    ELSE IF cp1 = cp2 THEN One
    ELSE CounterpartyBlend(cp1, cp2)

Or(a, b) == IF Truthy(a) THEN a ELSE b

FieldScores(trade1, trade2) ==
    [symbol |-> _match_symbol(trade1.symbol, trade2.symbol),
     trade_date |-> IF _as_date(trade1.trade_date) = _as_date(trade2.trade_date) THEN One ELSE Zero,
     side |-> IF Upper(trade1.side) = Upper(trade2.side) THEN One ELSE Zero,
     quantity |-> _match_quantity(trade1.quantity, trade2.quantity),
     price |-> _match_price(trade1.price, trade2.price),
     counterparty |-> _match_counterparty(
         Or(trade1.counterparty_normalized, trade1.counterparty),
         Or(trade2.counterparty_normalized, trade2.counterparty))]

RECURSIVE WeightedSum(_, _)
WeightedSum(field_scores, i) ==
    IF i = 0 THEN Zero
    ELSE RatAdd(WeightedSum(field_scores, i - 1),
                RatMul(field_scores[Fields[i]], weights[Fields[i]]))

\* The classification with thresholds that must be exceeded.
ClassifyAbove(overall_score) ==
    IF RatLt(auto_match_threshold, overall_score) THEN "auto"
    ELSE IF RatLt(manual_review_threshold, overall_score) THEN "review"
    ELSE "no_match"

Classify(overall_score) ==
    IF RatGeq(overall_score, auto_match_threshold) THEN "auto"
    ELSE IF RatGeq(overall_score, manual_review_threshold) THEN "review"
    ELSE "no_match"

compute_match_score(trade1, trade2) ==
    Only({Only({[overall_score |-> overall_score, field_scores |-> field_scores,
                 is_match |-> Classify(overall_score) # "no_match",
                 confidence_level |-> Classify(overall_score)] :
                overall_score \in {WeightedSum(field_scores, Len(Fields))}}) :
          field_scores \in {FieldScores(trade1, trade2)}})

\* The loop that keeps a later candidate of equal score.
RECURSIVE LastBestFrom(_, _, _, _, _, _)
LastBestFrom(source_trade, candidate_trades, threshold, i, best, best_score) ==
    IF i > Len(candidate_trades) THEN best
    ELSE Only({IF /\ RatGeq(score, threshold)
                  /\ (best = 0 \/ RatGeq(score, best_score))
               THEN LastBestFrom(source_trade, candidate_trades, threshold, i + 1, i, score)
               ELSE LastBestFrom(source_trade, candidate_trades, threshold, i + 1, best, best_score) :
               score \in {compute_match_score(source_trade, candidate_trades[i]).overall_score}})

\* The index in candidate_trades of the best match, 0 for (None, None):
\* the first candidate holding the highest score at or above the threshold.
RECURSIVE BestFrom(_, _, _, _, _, _)
BestFrom(source_trade, candidate_trades, threshold, i, best, best_score) ==
    IF i > Len(candidate_trades) THEN best
    ELSE Only({IF /\ RatGeq(score, threshold)
                  /\ (best = 0 \/ RatLt(best_score, score))
               THEN BestFrom(source_trade, candidate_trades, threshold, i + 1, i, score)
               ELSE BestFrom(source_trade, candidate_trades, threshold, i + 1, best, best_score) :
               score \in {compute_match_score(source_trade, candidate_trades[i]).overall_score}})

FindLastBestMatch(source_trade, candidate_trades, min_score) ==
    LastBestFrom(source_trade, candidate_trades,
                 IF min_score # NoScore THEN min_score ELSE manual_review_threshold,
                 1, 0, NoScore)

\* min_score is NoScore for None.
find_best_match(source_trade, candidate_trades, min_score) ==
    BestFrom(source_trade, candidate_trades,
             IF min_score # NoScore THEN min_score ELSE manual_review_threshold,
             1, 0, NoScore)

-----------------------------------------------------------------------------
(* Break deriver *)

RatAbs(a) == [n |-> Abs(a.n), d |-> a.d]
RatDiv(a, b) == Rat(a.n * b.d, a.d * b.n)

NumericFields == {"quantity", "price"}

\* The float a numeric column holds: units for quantity, price / PriceScale for price.
NumValue(trade, field) ==
    IF field = "quantity" THEN Rat(trade.quantity, 1) ELSE Rat(trade.price, PriceScale)

\* str(getattr(trade, field))
StrValue(trade, field) ==
    CASE field = "quantity" -> StrUnits(trade.quantity)
      [] field = "price" -> StrPrice(trade.price)
      [] field = "trade_date" -> StrDate(trade.trade_date)
      [] OTHER -> StrText(trade[field])

MismatchType(field) ==
    CASE field = "symbol" -> "symbol_mismatch"
      [] field = "trade_date" -> "trade_date_mismatch"
      [] field = "side" -> "side_mismatch"
      [] field = "quantity" -> "quantity_mismatch"
      [] field = "price" -> "price_mismatch"
      [] field = "counterparty" -> "counterparty_mismatch"

\* variance and variance_pct are NoScore for None.
\* The severity table without its quantity row.
SeverityOfSideOnly(field, variance, variance_pct) ==
    IF field = "side" /\ (variance = NoScore \/ RatLt(Zero, variance))
    THEN "critical"
    ELSE IF field = "price"
    THEN (IF variance_pct # NoScore /\ variance_pct # Zero /\ RatLt(One, variance_pct)
          THEN "high" ELSE "medium")
    ELSE IF field \in {"gross_amount", "net_amount"} THEN "medium"
    ELSE "low"

_assess_break_severity(field, variance, variance_pct) ==
    IF field \in {"quantity", "side"} /\ (variance = NoScore \/ RatLt(Zero, variance))
    THEN "critical"
    ELSE IF field = "price"
    THEN (IF variance_pct # NoScore /\ variance_pct # Zero /\ RatLt(One, variance_pct)
          THEN "high" ELSE "medium")
    ELSE IF field \in {"gross_amount", "net_amount"} THEN "medium"
    ELSE "low"

\* The environment variable _calculate_sla_deadline reads for a severity, and
\* the default it falls back on.
SlaVariable(severity) ==
    IF severity = "critical" THEN "SLA_HIGH_PRIORITY"
    ELSE IF severity = "high" THEN "SLA_MEDIUM_PRIORITY"
    ELSE "SLA_LOW_PRIORITY"

SlaSwapped(severity) ==
    IF severity = "critical" THEN 120
    ELSE IF severity = "high" THEN 30
    ELSE 480

SlaDefault(severity) ==
    IF severity = "critical" THEN 30
    ELSE IF severity = "high" THEN 120
    ELSE 480

\* int(os.getenv(name, default)) raises ValueError on a malformed value.
SlaRaises(e, severity) == e[SlaVariable(severity)].isset /\ ~e[SlaVariable(severity)].valid

SlaMinutes(e, severity) ==
    IF e[SlaVariable(severity)].isset THEN e[SlaVariable(severity)].minutes
    ELSE SlaDefault(severity)

_calculate_sla_deadline(e, now, severity) == now + SlaMinutes(e, severity)

BreakFor(trade1, trade2, field, score, e, now) ==
    LET numeric == field \in NumericFields
        val1 == IF numeric THEN NumValue(trade1, field) ELSE NoScore
        val2 == IF numeric THEN NumValue(trade2, field) ELSE NoScore
        variance == IF numeric THEN RatAbs(RatSub(val1, val2)) ELSE NoScore
        denom == IF numeric THEN RatMax(RatMax(RatAbs(val1), RatAbs(val2)), One) ELSE NoScore
        variance_pct == IF numeric THEN RatMul(RatDiv(variance, denom), Rat(100, 1)) ELSE NoScore
        severity == _assess_break_severity(field, variance, variance_pct)
    IN  [trade_id |-> trade1.id,
         matched_trade_id |-> trade2.id,
         break_type |-> MismatchType(field),
         severity |-> severity,
         field_name |-> field,
         expected_value |-> StrValue(trade1, field),
         actual_value |-> StrValue(trade2, field),
         variance |-> variance,
         variance_pct |-> variance_pct,
         status |-> "open",
         sla_deadline |-> _calculate_sla_deadline(e, now, severity),
         priority_score |-> RatSub(One, score)]

\* A field gets a break when its score is below 0.99 and getattr gives
\* unequal values on the two trades.
EmitsAtOrBelow(trade1, trade2, field, field_scores) ==
    /\ ~RatLt(Rat(99, 100), field_scores[field])
    /\ trade1[field] # trade2[field]

EmitsBreak(trade1, trade2, field, field_scores) ==
    /\ RatLt(field_scores[field], Rat(99, 100))
    /\ trade1[field] # trade2[field]

\* The list _identify_breaks returns, or raised when a deadline cannot be computed.
RECURSIVE BreaksUpTo(_, _, _, _, _, _)
BreaksUpTo(trade1, trade2, field_scores, e, now, i) ==
    IF i = 0 THEN [raised |-> FALSE, list |-> <<>>]
    ELSE Only({IF before.raised \/ ~EmitsBreak(trade1, trade2, Fields[i], field_scores) THEN before
               ELSE Only({IF SlaRaises(e, b.severity) THEN [raised |-> TRUE, list |-> <<>>]
                          ELSE [raised |-> FALSE, list |-> Append(before.list, b)] :
                          b \in {BreakFor(trade1, trade2, Fields[i], field_scores[Fields[i]], e, now)}}) :
               before \in {BreaksUpTo(trade1, trade2, field_scores, e, now, i - 1)}})

_identify_breaks(trade1, trade2, field_scores, e, now) ==
    BreaksUpTo(trade1, trade2, field_scores, e, now, Len(Fields))

\* TradeSource.value
SourceText(source) ==
    CASE source = "oms" -> <<"o","m","s">>
      [] source = "custodian" -> <<"c","u","s","t","o","d","i","a","n">>
      [] source = "prime_broker" -> <<"p","r","i","m","e","_","b","r","o","k","e","r">>

MissingNamesOwnSource(trade, expected_source, e, now) ==
    [trade_id |-> trade.id,
     matched_trade_id |-> NoId,
     break_type |-> "missing_trade",
     severity |-> "high",
     field_name |-> "trade_existence",
     expected_value |-> <<"T","r","a","d","e"," ","i","n"," ">> \o SourceText(trade.source_system),
     actual_value |-> <<"N","o","t"," ","f","o","u","n","d">>,
     variance |-> NoScore,
     variance_pct |-> NoScore,
     status |-> "open",
     sla_deadline |-> _calculate_sla_deadline(e, now, "high"),
     priority_score |-> NoScore]

_create_missing_trade_break(trade, expected_source, e, now) ==
    [trade_id |-> trade.id,
     matched_trade_id |-> NoId,
     break_type |-> "missing_trade",
     severity |-> "high",
     field_name |-> "trade_existence",
     expected_value |-> <<"T","r","a","d","e"," ","i","n"," ">> \o SourceText(expected_source),
     actual_value |-> <<"N","o","t"," ","f","o","u","n","d">>,
     variance |-> NoScore,
     variance_pct |-> NoScore,
     status |-> "open",
     sla_deadline |-> _calculate_sla_deadline(e, now, "high"),
     priority_score |-> NoScore]

-----------------------------------------------------------------------------
(* The database as ingestion left it, and the process environment *)

AAPL == <<"A","A","P","L">>
AAPL_O == <<"A","A","P","L",".","O">>
MSFT == <<"M","S","F","T">>
TSLA == <<"T","S","L","A">>
BUY == <<"B","U","Y">>
SELL == <<"S","E","L","L">>

Trade(id, source, day, hour, symbol, side, quantity, price, counterparty) ==
    [id |-> id, source_system |-> source, trade_date |-> [day |-> day, hour |-> hour],
     symbol |-> symbol, side |-> side, quantity |-> quantity, price |-> price,
     counterparty |-> counterparty, counterparty_normalized |-> NULL,
     is_matched |-> FALSE, matched_trade_id |-> NoId, match_confidence |-> NoScore,
     source_trade_id |-> Digits(id)]

SeedTrades ==
    <<Trade(1, "oms", 1, 10, AAPL, BUY, 100, 2000000, GS_LLC),
      Trade(2, "custodian", 1, 14, AAPL_O, BUY, 100, 2000000, GS),
      Trade(3, "custodian", 1, 10, AAPL, SELL, 100, 2000000, GS),
      Trade(4, "prime_broker", 1, 10, MSFT, BUY, 100, 2000000, GS),
      Trade(5, "prime_broker", 1, 10, AAPL, BUY, 105, 2030000, MS),
      Trade(6, "oms", 2, 9, TSLA, SELL, 100, 5000, MS),
      Trade(7, "custodian", 2, 9, TSLA, SELL, 99, 5000, MS),
      Trade(8, "prime_broker", 2, 16, TSLA, <<"s","e","l","l">>, 100, 5060, NULL),
      Trade(9, "oms", 3, 9, TSLA, SELL, 100, 5000, MS),
      Trade(10, "oms", 3, 9, TSLA, SELL, 100, 5000, MS),
      Trade(11, "oms", 3, 9, TSLA, SELL, 100, 5000, MS),
      Trade(12, "oms", 4, 9, MSFT, BUY, 100, 2000000, GS),
      Trade(13, "oms", 4, 9, MSFT, BUY, 100, 2000000, GS),
      Trade(14, "custodian", 4, 9, MSFT, BUY, 100, 2000000, GS),
      Trade(15, "oms", 5, 9, TSLA, SELL, 100, 500, MS),
      Trade(16, "custodian", 5, 9, TSLA, SELL, 98, 506, NULL),
      Trade(17, "oms", 5, 9, MSFT, BUY, 100, 2000000, GS)>>

\* The (trade_date, source1, source2) arguments tried.  ReconciliationRequest
\* accepts any two of the sources, the same one twice included.
TaskInputs ==
    {<<1, "oms", "custodian">>, <<1, "oms", "prime_broker">>, <<1, "custodian", "prime_broker">>,
     <<2, "oms", "custodian">>, <<2, "oms", "prime_broker">>}

ApiInputs == {<<1, "oms", "prime_broker">>, <<3, "oms", "oms">>}

\* The arguments tried for invocations that overlap in time.
ParTaskInputs ==
    {<<1, "oms", "custodian">>, <<1, "oms", "prime_broker">>, <<4, "oms", "custodian">>}

ParApiInputs == {<<4, "oms", "oms">>}

Unset == [isset |-> FALSE, valid |-> TRUE, minutes |-> 0]
\* A value the settings accept as an integer and int() rejects, such as 30.0
Malformed == [isset |-> TRUE, valid |-> FALSE, minutes |-> 0]
\* The value 0: an integer for the settings and for int() alike
NoMinutes == [isset |-> TRUE, valid |-> TRUE, minutes |-> 0]

DefaultEnv ==
    [SLA_HIGH_PRIORITY |-> Unset, SLA_MEDIUM_PRIORITY |-> Unset, SLA_LOW_PRIORITY |-> Unset]

EnvChoices ==
    {DefaultEnv,
     [DefaultEnv EXCEPT !.SLA_HIGH_PRIORITY = Malformed],
     [DefaultEnv EXCEPT !.SLA_LOW_PRIORITY = NoMinutes]}

-----------------------------------------------------------------------------
(* Sessions *)

Procs == {1, 2}

\* str(exc) of the two errors a run meets: the ValueError of int() on a
\* malformed setting, and an error of the database.
InvalidLiteral == <<"i","n","v","a","l","i","d"," ","l","i","t","e","r","a","l">>
DatabaseError == <<"d","a","t","a","b","a","s","e"," ","e","r","r","o","r">>

NoStats ==
    [auto_matched |-> 0, manual_review |-> 0, breaks_identified |-> 0,
     unmatched_source1 |-> 0, unmatched_source2 |-> 0]

\* A process between invocations; objs is the session's identity map and
\* loaded the column values each object was loaded with.
Idle ==
    [pc |-> "idle", kind |-> "none", inv |-> 0, run_id |-> 0,
     day |-> 0, source1 |-> "none", source2 |-> "none",
     objs |-> <<>>, loaded |-> <<>>, trades1 |-> <<>>, trades2 |-> <<>>,
     pending |-> <<>>, pairs |-> <<>>, stats |-> NoStats,
     inactive |-> FALSE, error |-> NULL, outcome |-> "none", derived_at |-> 0]

Perms(S) == {f \in [1..Cardinality(S) -> S] : \A i, j \in 1..Cardinality(S) : i # j => f[i] # f[j]}

Range(f) == {f[i] : i \in DOMAIN f}

\* Trade.source_system == source, start <= trade_date < end, is_matched IS false
\* The query without its is_matched filter.
AnyOf(source, day) ==
    {id \in DOMAIN trades :
        trades[id].source_system = source /\ trades[id].trade_date.day = day}

Unmatched(source, day) ==
    {id \in DOMAIN trades :
        /\ trades[id].source_system = source
        /\ trades[id].trade_date.day = day
        /\ trades[id].is_matched = FALSE}

\* Rows a query returns join the identity map; an object already there keeps
\* the state the session holds for it.
Loaded(s, ids) ==
    [s EXCEPT !.objs = [id \in DOMAIN s.objs \cup ids |->
                          IF id \in DOMAIN s.objs THEN s.objs[id] ELSE trades[id]],
              !.loaded = [id \in DOMAIN s.loaded \cup ids |->
                          IF id \in DOMAIN s.loaded THEN s.loaded[id] ELSE trades[id]]]

-----------------------------------------------------------------------------
(* Matching orchestrator *)

_trade_to_dict(trade) ==
    [id |-> trade.id, symbol |-> trade.symbol, trade_date |-> trade.trade_date,
     side |-> trade.side, quantity |-> trade.quantity, price |-> trade.price,
     counterparty |-> trade.counterparty,
     counterparty_normalized |-> trade.counterparty_normalized]

_normalize_trade_fields(trade) ==
    [trade EXCEPT
        !.symbol = normalize_symbol(trade.symbol),
        !.counterparty_normalized =
            IF Truthy(trade.counterparty) /\ ~Truthy(trade.counterparty_normalized)
            THEN normalize_counterparty(trade.counterparty) ELSE @]

\* trade1's columns are assigned first, then trade2's: when both are one
\* object the second assignment stands.
_set_match_pair(objs, id1, id2, confidence) ==
    LET first == [objs EXCEPT ![id1].is_matched = TRUE,
                              ![id1].matched_trade_id = id2,
                              ![id1].match_confidence = confidence]
    IN  [first EXCEPT ![id2].is_matched = TRUE,
                      ![id2].matched_trade_id = id1,
                      ![id2].match_confidence = confidence]

CountMatch(stats, confidence_level) ==
    IF confidence_level = "auto"
    THEN [stats EXCEPT !.auto_matched = @ + 1]
    ELSE [stats EXCEPT !.manual_review = @ + 1]

\* A matched pair goes on the loop state: lines 52-61.
Matched(m, id1, id2, score, e, now) ==
    Only({Only({[objs |-> objs,
                 matched_ids2 |-> m.matched_ids2 \cup {id2},
                 pending |-> m.pending \o found.list,
                 pairs |-> Append(m.pairs, [trade1 |-> id1, trade2 |-> id2, score |-> score,
                                            derived |-> ~found.raised,
                                            first |-> Len(m.pending) + 1,
                                            last |-> Len(m.pending) + Len(found.list)]),
                 stats |-> [CountMatch(m.stats, score.confidence_level) EXCEPT
                              !.breaks_identified = @ + Len(found.list)],
                 raised |-> found.raised] :
                found \in {_identify_breaks(objs[id1], objs[id2], score.field_scores, e, now)}}) :
          objs \in {_set_match_pair(m.objs, id1, id2, score.overall_score)}})

\* The candidates line 46 passes, and the one find_best_match picks.
Candidates(m, candidate_ids) ==
    [k \in 1..Len(candidate_ids) |-> _trade_to_dict(m.objs[candidate_ids[k]])]

\* One pass of the loop over trades1 (lines 43-61), on the loop state
\* m = [objs, matched_ids2, pending, pairs, stats, raised].
MatchOne(m, trades2, id1, e, now) ==
    Only({Only({IF best = 0 THEN m
                ELSE Only({Matched(m, id1, candidate_ids[best], score, e, now) :
                           score \in {compute_match_score(
                                         _trade_to_dict(m.objs[id1]),
                                         _trade_to_dict(m.objs[candidate_ids[best]]))}}) :
                best \in {find_best_match(_trade_to_dict(m.objs[id1]),
                                          Candidates(m, candidate_ids), NoScore)}}) :
          candidate_ids \in {SelectSeq(trades2, LAMBDA id : id \notin m.matched_ids2)}})

RECURSIVE MatchLoop(_, _, _, _, _, _)
MatchLoop(m, trades1, trades2, e, now, i) ==
    IF i = 0 THEN m
    ELSE Only({IF before.raised THEN before
               ELSE MatchOne(before, trades2, trades1[i], e, now) :
               before \in {MatchLoop(m, trades1, trades2, e, now, i - 1)}})

\* The loops over trades1 and trades2 that report what stayed unmatched
\* (lines 63-71); which is "unmatched_source1" or "unmatched_source2".
RECURSIVE MissingLoop(_, _, _, _, _, _, _)
MissingLoop(m, list, expected_source, which, e, now, i) ==
    IF i = 0 THEN m
    ELSE Only({IF before.raised \/ before.objs[list[i]].is_matched THEN before
               ELSE IF SlaRaises(e, "high") THEN [before EXCEPT !.raised = TRUE]
               ELSE [before EXCEPT
                       !.pending = Append(@, _create_missing_trade_break(
                                                before.objs[list[i]], expected_source, e, now)),
                       !.stats[which] = @ + 1] :
               before \in {MissingLoop(m, list, expected_source, which, e, now, i - 1)}})

\* Lines 30-71 of run_reconciliation on a session that has fetched both lists.
Reconcile(s, e, now) ==
    LET normalized == [id \in DOMAIN s.objs |->
                         IF id \in Range(s.trades1 \o s.trades2)
                         THEN _normalize_trade_fields(s.objs[id]) ELSE s.objs[id]]
        m0 == [objs |-> normalized, matched_ids2 |-> {}, pending |-> <<>>, pairs |-> <<>>,
               stats |-> NoStats, raised |-> FALSE]
    IN  Only({Only({MissingLoop(m2, s.trades2, s.source1, "unmatched_source2", e, now,
                                Len(s.trades2)) :
                    m2 \in {MissingLoop(m1, s.trades1, s.source2, "unmatched_source1", e, now,
                                        Len(s.trades1))}}) :
              m1 \in {MatchLoop(m0, s.trades1, s.trades2, e, now, Len(s.trades1))}})

-----------------------------------------------------------------------------
(* Persistence *)

NoTime == -1

MatchColumns == {"is_matched", "matched_trade_id", "match_confidence"}
WrittenColumns == MatchColumns \cup {"symbol", "counterparty_normalized"}

\* The UPDATE a flush issues for one object: the columns whose value differs
\* from the loaded one, whatever the row holds by now.
Updated(row, old, new) ==
    [row EXCEPT
        !.symbol = IF new.symbol # old.symbol THEN new.symbol ELSE @,
        !.counterparty_normalized =
            IF new.counterparty_normalized # old.counterparty_normalized
            THEN new.counterparty_normalized ELSE @,
        !.is_matched = IF new.is_matched # old.is_matched THEN new.is_matched ELSE @,
        !.matched_trade_id =
            IF new.matched_trade_id # old.matched_trade_id THEN new.matched_trade_id ELSE @,
        !.match_confidence =
            IF new.match_confidence # old.match_confidence THEN new.match_confidence ELSE @]

FlushedTrades(s) ==
    [id \in DOMAIN trades |->
        IF id \in DOMAIN s.objs THEN Updated(trades[id], s.loaded[id], s.objs[id])
        ELSE trades[id]]

\* The INSERTs of a flush: ids in sequence, created_at defaulting to utcnow.
FlushedBreaks(s) ==
    breaks \o [k \in DOMAIN s.pending |->
                 [id |-> Len(breaks) + k, created_at |-> clock, inv |-> s.inv,
                  trade_id |-> s.pending[k].trade_id,
                  matched_trade_id |-> s.pending[k].matched_trade_id,
                  break_type |-> s.pending[k].break_type,
                  severity |-> s.pending[k].severity,
                  field_name |-> s.pending[k].field_name,
                  expected_value |-> s.pending[k].expected_value,
                  actual_value |-> s.pending[k].actual_value,
                  variance |-> s.pending[k].variance,
                  variance_pct |-> s.pending[k].variance_pct,
                  status |-> s.pending[k].status,
                  sla_deadline |-> s.pending[k].sla_deadline,
                  priority_score |-> s.pending[k].priority_score,
                  assigned_to |-> None, pnl_impact |-> NoScore,
                  resolved_at |-> NoTime, resolved_by |-> None,
                  resolution_action |-> None, resolution_notes |-> None]]

\* What a flush of s writes, for the record of who wrote what.
FlushedWrites(s) ==
    {[inv |-> s.inv, trade |-> id, column |-> c] :
        id \in DOMAIN s.objs, c \in WrittenColumns} \cap
    {w \in [inv : {s.inv}, trade : DOMAIN s.objs, column : WrittenColumns] :
        s.objs[w.trade][w.column] # s.loaded[w.trade][w.column]}

-----------------------------------------------------------------------------
(* Invocations *)

NewInvocation(kind, day, source1, source2) ==
    [kind |-> kind, day |-> day, source1 |-> source1, source2 |-> source2,
     matched_before |-> {id \in DOMAIN trades : trades[id].is_matched}]

Begun(p, kind, run_id, day, source1, source2) ==
    [Idle EXCEPT !.pc = "fetch1", !.kind = kind, !.inv = Len(invs) + 1, !.run_id = run_id,
                 !.day = day, !.source1 = source1, !.source2 = source2]

\* The reconciliation task up to its try block (jobs.py lines 36-49): the
\* run record is committed with status running.
TaskStart(p, day, source1, source2) ==
    /\ sess[p].pc \in {"idle", "done"}
    /\ Len(invs) < MaxRuns
    /\ runs' = Append(runs, [id |-> Len(runs) + 1, inv |-> Len(invs) + 1, run_date |-> day,
                             source_systems |-> <<source1, source2>>, status |-> "running",
                             error_message |-> NULL, start_time |-> clock, end_time |-> NoTime,
                             total_trades |-> 0, matched_trades |-> 0, breaks_identified |-> 0,
                             manual_review_required |-> 0])
    /\ invs' = Append(invs, NewInvocation("task", day, source1, source2))
    /\ sess' = [sess EXCEPT ![p] = Begun(p, "task", Len(runs) + 1, day, source1, source2)]
    /\ UNCHANGED <<trades, breaks, clock, env, writes>>

\* POST /reconciliation/run (routes.py lines 58-65) with a session of its own.
ApiStart(p, day, source1, source2) ==
    /\ sess[p].pc \in {"idle", "done"}
    /\ Len(invs) < MaxRuns
    /\ invs' = Append(invs, NewInvocation("api", day, source1, source2))
    /\ sess' = [sess EXCEPT ![p] = Begun(p, "api", 0, day, source1, source2)]
    /\ UNCHANGED <<trades, breaks, runs, clock, env, writes>>

\* trades1 = self._fetch_unmatched_trades(source1, trade_date); no ORDER BY,
\* the rows come in any order.
Fetch1(p) ==
    /\ sess[p].pc = "fetch1"
    /\ \E order \in Perms(Unmatched(sess[p].source1, sess[p].day)) :
          sess' = [sess EXCEPT ![p] = [Loaded(sess[p], Range(order)) EXCEPT
                                          !.trades1 = order, !.pc = "fetch2"]]
    /\ UNCHANGED <<trades, breaks, runs, clock, env, invs, writes>>

Fetch2(p) ==
    /\ sess[p].pc = "fetch2"
    /\ \E order \in Perms(Unmatched(sess[p].source2, sess[p].day)) :
          sess' = [sess EXCEPT ![p] = [Loaded(sess[p], Range(order)) EXCEPT
                                          !.trades2 = order, !.pc = "match"]]
    /\ UNCHANGED <<trades, breaks, runs, clock, env, invs, writes>>

\* Lines 30-71: in memory, nothing reaches the database (autoflush is off).
\* An exception leaves the session as the loops left it.
Match(p) ==
    /\ sess[p].pc = "match"
    /\ \E m \in {Reconcile(sess[p], env, clock)} :
           sess' = [sess EXCEPT ![p] =
                      [@ EXCEPT !.objs = m.objs, !.pending = m.pending, !.pairs = m.pairs,
                                !.stats = m.stats, !.derived_at = clock,
                                !.error = IF m.raised THEN InvalidLiteral ELSE NULL,
                                !.pc = IF m.raised THEN "raised" ELSE "commit"]]
    /\ UNCHANGED <<trades, breaks, runs, clock, env, invs, writes>>

\* self.db.commit() of line 73 succeeds; the endpoint then returns the stats.
Commit(p) ==
    /\ sess[p].pc = "commit"
    /\ trades' = FlushedTrades(sess[p])
    /\ breaks' = FlushedBreaks(sess[p])
    /\ writes' = writes \cup FlushedWrites(sess[p])
    /\ sess' = [sess EXCEPT ![p] =
                  [@ EXCEPT !.loaded = sess[p].objs, !.pending = <<>>,
                            !.pc = IF sess[p].kind = "api" THEN "done" ELSE "committed",
                            !.outcome = IF sess[p].kind = "api" THEN "returned" ELSE @]]
    /\ UNCHANGED <<runs, clock, env, invs>>

\* self.db.commit() of line 73 meets a database error and the transaction
\* is rolled back.  When the error comes while flushing, the session refuses
\* further work until rollback() is called; when it comes at the COMMIT
\* itself, the session is clean and usable.
CommitFails(p) ==
    /\ sess[p].pc = "commit"
    /\ \E flushing \in BOOLEAN :
          sess' = [sess EXCEPT ![p] =
                     [@ EXCEPT !.objs = <<>>, !.loaded = <<>>, !.pending = <<>>,
                               !.inactive = flushing, !.error = DatabaseError,
                               !.pc = "raised"]]
    /\ UNCHANGED <<trades, breaks, runs, clock, env, invs, writes>>

\* jobs.py lines 57-70: the totals go on the run record, a second commit.
TaskCompletes(p) ==
    /\ sess[p].pc = "committed"
    /\ LET stats == sess[p].stats
           total == stats.auto_matched + stats.manual_review
                    + stats.unmatched_source1 + stats.unmatched_source2
       IN  runs' = [runs EXCEPT ![sess[p].run_id] =
                      [@ EXCEPT !.total_trades = total,
                                !.matched_trades = stats.auto_matched + stats.manual_review,
                                !.breaks_identified = stats.breaks_identified,
                                !.manual_review_required = stats.manual_review,
                                !.status = "completed",
                                !.end_time = clock]]
    /\ sess' = [sess EXCEPT ![p] = [@ EXCEPT !.pc = "done", !.outcome = "returned"]]
    /\ UNCHANGED <<trades, breaks, clock, env, invs, writes>>

\* jobs.py lines 71-79: the handler sets the run failed and commits on the
\* same session.  On an inactive session that commit raises and writes
\* nothing; on an active one it flushes everything the session holds.
TaskFails(p) ==
    /\ sess[p].pc = "raised"
    /\ sess[p].kind = "task"
    /\ IF sess[p].inactive
       THEN UNCHANGED <<trades, breaks, runs, writes>>
       ELSE /\ trades' = FlushedTrades(sess[p])
            /\ breaks' = FlushedBreaks(sess[p])
            /\ writes' = writes \cup FlushedWrites(sess[p])
            /\ runs' = [runs EXCEPT ![sess[p].run_id] =
                          [@ EXCEPT !.status = "failed",
                                    !.error_message = sess[p].error,
                                    !.end_time = clock]]
    /\ sess' = [sess EXCEPT ![p] = [@ EXCEPT !.pc = "done", !.outcome = "raised", !.pending = <<>>]]
    /\ UNCHANGED <<clock, env, invs>>

\* The endpoint lets the exception through; get_db closes the session and
\* what it held is dropped.
ApiFails(p) ==
    /\ sess[p].pc = "raised"
    /\ sess[p].kind = "api"
    /\ sess' = [sess EXCEPT ![p] = [@ EXCEPT !.pc = "done", !.outcome = "raised", !.pending = <<>>]]
    /\ UNCHANGED <<trades, breaks, runs, clock, env, invs, writes>>

TickMinutes == 45

Tick ==
    /\ clock < MaxTicks * TickMinutes
    /\ clock' = clock + TickMinutes
    /\ UNCHANGED <<trades, breaks, runs, sess, env, invs, writes>>

-----------------------------------------------------------------------------
(* Exception router and auto-remediation *)

MaxRequests == 2

\* A session between requests or jobs; objs is its identity map of breaks
\* and loaded the column values each was loaded with.
IdleWork ==
    [pc |-> "idle", op |-> "none", break_id |-> 0, objs |-> <<>>, loaded |-> <<>>,
     outcome |-> "none", assigned_to |-> None, escalation_time |-> NoTime,
     suggestion |-> None, applied |-> FALSE, escalated |-> {}]

routing_rules ==
    <<[assign_to |-> "senior_ops_manager", escalation_minutes |-> 15],
      [assign_to |-> "head_of_trading", escalation_minutes |-> 30],
      [assign_to |-> "trade_support_team", escalation_minutes |-> 60],
      [assign_to |-> "ops_analyst", escalation_minutes |-> 120],
      [assign_to |-> "ops_team", escalation_minutes |-> 240]>>

\* rule['condition'](break_record) of rule i
Condition(i, b) ==
    CASE i = 1 -> b.severity = "critical"
      [] i = 2 -> /\ b.severity = "high"
                  /\ b.pnl_impact # NoScore /\ b.pnl_impact # Zero
                  /\ RatLt(Rat(100000, 1), RatAbs(b.pnl_impact))
      [] i = 3 -> b.break_type = "missing_trade"
      [] i = 4 -> b.break_type \in {"price_mismatch", "quantity_mismatch"}
      [] i = 5 -> TRUE

LaterRulesFirst == <<5, 4, 3, 2, 1>>

\* The rules in the order the loop of route_exception tries them.
RuleOrder == <<1, 2, 3, 4, 5>>

\* The first rule of the order whose condition holds, 0 when none does.
RECURSIVE FirstRule(_, _, _)
FirstRule(order, b, k) ==
    IF k > Len(order) THEN 0
    ELSE IF Condition(order[k], b) THEN order[k]
    ELSE FirstRule(order, b, k + 1)

EveryoneToHead(current_assignee) == "head_of_operations"

_get_escalation_target(current_assignee) ==
    CASE current_assignee = "ops_analyst" -> "senior_ops_manager"
      [] current_assignee = "trade_support_team" -> "ops_manager"
      [] current_assignee = "ops_team" -> "ops_manager"
      [] current_assignee = "ops_manager" -> "head_of_operations"
      [] current_assignee = "senior_ops_manager" -> "head_of_operations"
      [] OTHER -> "head_of_operations"

suggest_action(break_record) ==
    IF break_record.break_type = "missing_trade"
    THEN [action |-> "request_missing_trade_resend", auto_executable |-> FALSE,
          reason |-> "Requires external source confirmation"]
    ELSE IF break_record.break_type = "counterparty_mismatch"
    THEN [action |-> "normalize_counterparty_alias", auto_executable |-> TRUE,
          reason |-> "Likely naming standardization issue"]
    ELSE IF /\ break_record.break_type = "price_mismatch"
            /\ break_record.variance_pct # NoScore
            /\ RatLt(break_record.variance_pct, Rat(1, 10))
    THEN [action |-> "accept_minor_price_rounding", auto_executable |-> TRUE,
          reason |-> "Within acceptable micro-tolerance"]
    ELSE [action |-> "manual_investigation", auto_executable |-> FALSE,
          reason |-> "No safe automated path"]

ApplyWithoutActor(break_record, action, actor) ==
    IF action \in {"accept_minor_price_rounding", "normalize_counterparty_alias"}
    THEN [applied |-> TRUE,
          break_record |-> [break_record EXCEPT
                              !.status = IF action = "accept_minor_price_rounding"
                                         THEN "resolved" ELSE "in_progress",
                              !.resolution_action = action]]
    ELSE [applied |-> FALSE, break_record |-> break_record]

\* The value apply_action returns and the break as it leaves it.
apply_action(break_record, action, actor) ==
    IF action = "accept_minor_price_rounding"
    THEN [applied |-> TRUE,
          break_record |-> [break_record EXCEPT
                              !.status = "resolved",
                              !.resolution_action = action,
                              !.resolution_notes = "Automatically accepted minor price variance",
                              !.resolved_by = actor]]
    ELSE IF action = "normalize_counterparty_alias"
    THEN [applied |-> TRUE,
          break_record |-> [break_record EXCEPT
                              !.status = "in_progress",
                              !.resolution_action = action,
                              !.resolution_notes =
                                  "Alias normalization queued for reference data update"]]
    ELSE [applied |-> FALSE, break_record |-> break_record]

\* The UPDATE a flush issues for one break: the columns whose value differs
\* from the loaded one, whatever the row holds by now.
UpdatedBreak(row, old, new) ==
    [c \in DOMAIN row |-> IF new[c] # old[c] THEN new[c] ELSE row[c]]

FlushedWork(w) ==
    [id \in DOMAIN breaks |->
        IF id \in DOMAIN w.objs THEN UpdatedBreak(breaks[id], w.loaded[id], w.objs[id])
        ELSE breaks[id]]

\* A request or a job opens a session of its own.
Opened(op, break_id) == [IdleWork EXCEPT !.op = op, !.break_id = break_id]

\* The response goes out and the session is closed.
Closed(w, outcome) ==
    [w EXCEPT !.pc = "done", !.outcome = outcome, !.objs = <<>>, !.loaded = <<>>]

\* POST /exceptions/{break_id}/route up to the commit of route_exception.
\* An unknown id is answered 404.
RouteStart(p, break_id) ==
    /\ work[p].pc \in {"idle", "done"}
    /\ requests < MaxRequests
    /\ requests' = requests + 1
    /\ IF break_id \notin DOMAIN breaks
       THEN work' = [work EXCEPT ![p] =
                       Closed(Opened("route", break_id), "not_found")]
       ELSE \E rule \in {FirstRule(RuleOrder, breaks[break_id], 1)} :
               IF rule = 0
               THEN work' = [work EXCEPT ![p] =
                               Closed(Opened("route", break_id), "no_rule_matched")]
               ELSE work' = [work EXCEPT ![p] =
                               [Opened("route", break_id) EXCEPT
                                   !.pc = "route_commit",
                                   !.loaded = break_id :> breaks[break_id],
                                   !.objs = break_id :>
                                       [breaks[break_id] EXCEPT
                                           !.assigned_to = routing_rules[rule].assign_to,
                                           !.status = "in_progress"],
                                   !.assigned_to = routing_rules[rule].assign_to,
                                   !.escalation_time =
                                       clock + routing_rules[rule].escalation_minutes]]
    /\ UNCHANGED <<trades, breaks, runs, sess, clock, env, invs, writes>>

\* self.db.commit() of route_exception, and the response.
RouteCommit(p) ==
    /\ work[p].pc = "route_commit"
    /\ breaks' = FlushedWork(work[p])
    /\ work' = [work EXCEPT ![p] = Closed(@, "returned")]
    /\ UNCHANGED <<trades, runs, sess, clock, env, invs, writes, requests>>

\* POST /exceptions/{break_id}/auto-remediate up to its commit.
RemediateStart(p, break_id) ==
    /\ work[p].pc \in {"idle", "done"}
    /\ requests < MaxRequests
    /\ requests' = requests + 1
    /\ IF break_id \notin DOMAIN breaks
       THEN work' = [work EXCEPT ![p] =
                       Closed(Opened("remediate", break_id), "not_found")]
       ELSE \E suggestion \in {suggest_action(breaks[break_id])} :
            \E done \in {apply_action(breaks[break_id], suggestion.action, "system")} :
               IF suggestion.auto_executable /\ done.applied
               THEN work' = [work EXCEPT ![p] =
                               [Opened("remediate", break_id) EXCEPT
                                   !.pc = "remediate_commit",
                                   !.loaded = break_id :> breaks[break_id],
                                   !.objs = break_id :> done.break_record,
                                   !.suggestion = suggestion.action,
                                   !.applied = TRUE]]
               ELSE work' = [work EXCEPT ![p] =
                               Closed([Opened("remediate", break_id) EXCEPT
                                           !.suggestion = suggestion.action], "returned")]
    /\ UNCHANGED <<trades, breaks, runs, sess, clock, env, invs, writes>>

RemediateCommit(p) ==
    /\ work[p].pc = "remediate_commit"
    /\ breaks' = FlushedWork(work[p])
    /\ work' = [work EXCEPT ![p] = Closed(@, "returned")]
    /\ UNCHANGED <<trades, runs, sess, clock, env, invs, writes, requests>>

OverdueOpen(now) ==
    {id \in DOMAIN breaks :
        /\ breaks[id].status = "open"
        /\ breaks[id].sla_deadline # NoTime
        /\ breaks[id].sla_deadline < now}

\* status IN (open, in_progress), sla_deadline IS NOT NULL, sla_deadline < now
Overdue(now) ==
    {id \in DOMAIN breaks :
        /\ breaks[id].status \in {"open", "in_progress"}
        /\ breaks[id].sla_deadline # NoTime
        /\ breaks[id].sla_deadline < now}

\* The loop of check_sla_breaches over one break.
Escalated(break_record) ==
    [break_record EXCEPT
        !.assigned_to = _get_escalation_target(
                            IF @ = None THEN "unassigned" ELSE @),
        !.status = "escalated"]

\* check_sla_breaches up to its commit, as the scheduled job or behind
\* GET /exceptions/overdue; with nothing overdue it returns without one.
\* The returned list has one entry for each row of the query, in the order
\* of the rows; escalated holds its entries.
SweepStart(p) ==
    /\ work[p].pc \in {"idle", "done"}
    /\ \E overdue_breaks \in {Overdue(clock)} :
          work' = [work EXCEPT ![p] =
                     IF overdue_breaks = {} THEN Closed(Opened("sweep", 0), "returned")
                     ELSE [Opened("sweep", 0) EXCEPT
                             !.pc = "sweep_commit",
                             !.loaded = [id \in overdue_breaks |-> breaks[id]],
                             !.objs = [id \in overdue_breaks |-> Escalated(breaks[id])],
                             !.escalated =
                                 {[break_id |-> id,
                                   original_assignee |->
                                       IF breaks[id].assigned_to = None
                                       THEN "unassigned" ELSE breaks[id].assigned_to,
                                   escalated_to |-> Escalated(breaks[id]).assigned_to] :
                                  id \in overdue_breaks}]]
    /\ UNCHANGED <<trades, breaks, runs, sess, clock, env, invs, writes, requests>>

SweepCommit(p) ==
    /\ work[p].pc = "sweep_commit"
    /\ breaks' = FlushedWork(work[p])
    /\ work' = [work EXCEPT ![p] = Closed(@, "returned")]
    /\ UNCHANGED <<trades, runs, sess, clock, env, invs, writes, requests>>

-----------------------------------------------------------------------------
(* GET /exceptions/overdue *)

\* The endpoint returns what check_sla_breaches returns, on the session of
\* the request.
OverdueStart(p) == SweepStart(p)

OverdueCommit(p) == SweepCommit(p)

-----------------------------------------------------------------------------

(* Ingestion *)

\* The connectors in the order ingest_all_sources visits them.
connectors == <<"oms", "custodian">>

IsNumeral(text) ==
    /\ text # <<>>
    /\ \A i \in DOMAIN text : \E n \in 0..9 : text[i] = Digit(n)

\* float() of the text of a whole number
RECURSIVE float(_)
float(text) ==
    IF text = <<>> THEN 0
    ELSE 10 * float(SubSeq(text, 1, Len(text) - 1))
           + (CHOOSE n \in 0..9 : Digit(n) = text[Len(text)])

\* str() of an identifier; one that is missing or 0 is falsy
StrId(n) == IF n = 0 THEN <<>> ELSE Digits(n)

\* A record without a timestamp
NoStamp == [day |-> 0, hour |-> 0]

\* datetime.utcnow() as a day and an hour
utcnow == [day |-> 6 + clock \div 1440, hour |-> (clock \div 60) % 24]

\* OMSConnector.normalize_trade for an OMS that is not Alpaca
normalize_oms(raw_trade) ==
    [source_system |-> "oms",
     source_trade_id |-> IF raw_trade.order_id # 0 THEN StrId(raw_trade.order_id)
                         ELSE StrId(raw_trade.id),
     trade_date |-> IF raw_trade.execution_time # NoStamp
                    THEN raw_trade.execution_time ELSE utcnow,
     symbol |-> Upper(raw_trade.ticker),
     side |-> Upper(raw_trade.side),
     quantity |-> float(raw_trade.filled_quantity),
     price |-> raw_trade.avg_fill_price,
     counterparty |-> raw_trade.executing_broker]

\* CustodianConnector.normalize_trade
normalize_custodian(raw_trade) ==
    [source_system |-> "custodian",
     source_trade_id |-> Digits(raw_trade.TradeID),
     trade_date |-> raw_trade.TradeDate,
     symbol |-> Upper(raw_trade.Symbol),
     side |-> IF Upper(raw_trade.BuySellIndicator) = <<"B">> THEN BUY ELSE SELL,
     quantity |-> float(raw_trade.Quantity),
     price |-> raw_trade.Price,
     counterparty |-> raw_trade.Counterparty]

normalize_trade(source, raw_trade) ==
    IF source = "oms" THEN normalize_oms(raw_trade) ELSE normalize_custodian(raw_trade)

\* float() raises on text that is no number, and the record is logged and skipped.
Raises(source, raw_trade) ==
    IF source = "oms" THEN ~IsNumeral(raw_trade.filled_quantity)
    ELSE ~IsNumeral(raw_trade.Quantity)

required_fields ==
    {"trade_date", "symbol", "quantity", "price", "side", "source_trade_id", "source_system"}

validate_trade(trade) == required_fields \subseteq DOMAIN trade

\* The row an INSERT of Trade(**normalized) leaves, under the next id.
NewTrade(id, normalized) ==
    [Trade(id, normalized.source_system, normalized.trade_date.day,
           normalized.trade_date.hour, normalized.symbol, normalized.side,
           normalized.quantity, normalized.price, normalized.counterparty)
        EXCEPT !.source_trade_id = normalized.source_trade_id]

SameIdentity(a, b) ==
    a.source_system = b.source_system /\ a.source_trade_id = b.source_trade_id

Hundred == <<"1","0","0">>

\* The records of the sources as the connectors return them.
OmsRaw(order_id, id, filled_quantity) ==
    [order_id |-> order_id, id |-> id, execution_time |-> [day |-> 6, hour |-> 9],
     ticker |-> <<"a","a","p","l">>, side |-> <<"b","u","y">>,
     filled_quantity |-> filled_quantity, avg_fill_price |-> 2000000,
     executing_broker |-> GS]

CustodianRaw(TradeID) ==
    [TradeID |-> TradeID, TradeDate |-> [day |-> 6, hour |-> 0], Symbol |-> AAPL,
     BuySellIndicator |-> <<"B">>, Quantity |-> Hundred, Price |-> 2000000,
     Counterparty |-> GS]

\* What connect() and fetch_trades() give one call, source by source: a
\* stored identity with a new one, identities another call fetches too, a
\* record whose quantity is no number, the same new identity twice, and a
\* custodian that cannot be reached.
Feeds ==
    {[oms |-> [connect |-> TRUE,
               raw_trades |-> <<OmsRaw(1, 0, Hundred), OmsRaw(0, 101, Hundred)>>],
      custodian |-> [connect |-> TRUE, raw_trades |-> <<CustodianRaw(201)>>]],
     [oms |-> [connect |-> TRUE,
               raw_trades |-> <<OmsRaw(101, 0, Hundred), OmsRaw(102, 0, Hundred),
                                OmsRaw(103, 0, <<"n","/","a">>)>>],
      custodian |-> [connect |-> TRUE,
                     raw_trades |-> <<CustodianRaw(201), CustodianRaw(202)>>]],
     [oms |-> [connect |-> TRUE,
               raw_trades |-> <<OmsRaw(102, 0, Hundred), OmsRaw(102, 0, Hundred)>>],
      custodian |-> [connect |-> FALSE, raw_trades |-> <<>>]]}

MaxIngests == 3

\* ingest_all_sources at the head of the loop body for connector k: a source
\* that does not connect is answered 0, one without records goes to its
\* commit, and after the last source the results are returned.
RECURSIVE Entered(_, _)
Entered(w, k) ==
    IF k > Len(connectors) THEN [w EXCEPT !.pc = "done"]
    ELSE IF ~w.feed[connectors[k]].connect
    THEN Entered([w EXCEPT !.results = (connectors[k] :> 0) @@ @], k + 1)
    ELSE [w EXCEPT !.pc = IF w.feed[connectors[k]].raw_trades = <<>>
                          THEN "commit" ELSE "records",
                   !.source = k, !.i = 1, !.pending = <<>>, !.saved_count = 0]

\* POST /ingestion/run or the run_ingestion task: a session of its own.
IngestStart(p, feed) ==
    /\ work[p].pc \in {"idle", "done"}
    /\ requests < MaxIngests
    /\ requests' = requests + 1
    /\ work' = [work EXCEPT ![p] =
                   Entered([pc |-> "records", op |-> "ingest", feed |-> feed,
                            source |-> 0, i |-> 1, pending |-> <<>>,
                            saved_count |-> 0, results |-> <<>>], 1)]
    /\ UNCHANGED <<trades, breaks, runs, sess, clock, env, invs, writes>>

\* The query of line 43 sees the rows of the table: the session does not
\* flush before a query, so what it has added is not among them.
Exists(source, normalized) ==
    \E id \in DOMAIN trades :
        /\ trades[id].source_system = source
        /\ trades[id].source_trade_id = normalized.source_trade_id

\* The loop body for one raw record.
Ingested(w, source, raw_trade) ==
    IF Raises(source, raw_trade) THEN w
    ELSE LET normalized == normalize_trade(source, raw_trade) IN
         IF ~validate_trade(normalized) THEN w
         ELSE IF Exists(source, normalized) THEN w
         ELSE [w EXCEPT !.pending = Append(@, normalized), !.saved_count = @ + 1]

IngestRecord(p) ==
    /\ work[p].pc = "records"
    /\ \E w \in {work[p]} : \E source \in {connectors[w.source]} :
          work' = [work EXCEPT ![p] =
                      [Ingested(w, source, w.feed[source].raw_trades[w.i]) EXCEPT
                          !.pc = IF w.i = Len(w.feed[source].raw_trades)
                                 THEN "commit" ELSE "records",
                          !.i = w.i + 1]]
    /\ UNCHANGED <<trades, breaks, runs, sess, clock, env, invs, writes, requests>>

\* uq_trade_source_trade_id refuses an INSERT whose identity a row of the
\* table or an earlier INSERT of the same flush has.
Refused(pending) ==
    \/ \E i \in DOMAIN pending : \E id \in DOMAIN trades :
          SameIdentity(pending[i], trades[id])
    \/ \E i, j \in DOMAIN pending : i < j /\ SameIdentity(pending[i], pending[j])

\* The commit of one source: the INSERTs of the batch in one transaction.  A
\* refused INSERT raises IntegrityError, the handler rolls the batch back and
\* answers 0 for the source.
IngestCommit(p) ==
    /\ work[p].pc = "commit"
    /\ \E w \in {work[p]} : \E source \in {connectors[w.source]} :
          IF Refused(w.pending)
          THEN /\ trades' = trades
               /\ work' = [work EXCEPT ![p] =
                              Entered([w EXCEPT !.results = (source :> 0) @@ @],
                                      w.source + 1)]
          ELSE /\ trades' = trades \o
                      [i \in DOMAIN w.pending |->
                          NewTrade(Len(trades) + i, w.pending[i])]
               /\ work' = [work EXCEPT ![p] =
                              Entered([w EXCEPT
                                          !.results = (source :> w.saved_count) @@ @],
                                      w.source + 1)]
    /\ UNCHANGED <<breaks, runs, sess, clock, env, invs, writes, requests>>

-----------------------------------------------------------------------------
(* Calls of the matcher and the normalizer *)

\* The trades the matcher is called on.
MatcherTrade(id, symbol, day, side, quantity, price, counterparty) ==
    [id |-> id, symbol |-> symbol, trade_date |-> [day |-> day, hour |-> 10],
     side |-> side, quantity |-> quantity, price |-> price,
     counterparty |-> counterparty, counterparty_normalized |-> NULL]

LeftTrades ==
    {MatcherTrade(1, symbol, 1, side, 100, 2000000, counterparty) :
        symbol \in {AAPL, TSLA}, side \in {BUY, SELL}, counterparty \in {GS, MS, NULL}}

RightTrades ==
    {MatcherTrade(2, x[1], x[2], x[3], x[4], x[5], x[6]) :
        x \in {AAPL, TSLA} \X {1, 2} \X {BUY, <<"b","u","y">>, SELL} \X {100, 105}
                \X {2000000, 2010000, 2030000} \X {GS, MS, NULL}}

\* Candidates of one source trade: two that equal it, near ones and far ones.
SourceTrade == MatcherTrade(1, AAPL, 1, BUY, 100, 2000000, GS)

CandidateTrades ==
    {MatcherTrade(2, AAPL, 1, BUY, 100, 2000000, GS),
     MatcherTrade(3, AAPL, 1, BUY, 100, 2000000, GS),
     MatcherTrade(4, AAPL, 1, BUY, 105, 2000000, GS),
     MatcherTrade(5, AAPL, 1, BUY, 100, 2000000, MS),
     MatcherTrade(6, AAPL, 2, SELL, 100, 2000000, GS),
     MatcherTrade(7, TSLA, 2, SELL, 105, 2030000, MS)}

MaxCandidates == 3

CandidateLists == UNION {[1..n -> CandidateTrades] : n \in 0..MaxCandidates}

MinScores == {NoScore, Zero, Rat(99, 100), Rat(995, 1000)}

\* Text of symbols: upper and lower case, blanks and dots.
SymbolChars == {"A", "b", " ", "."}
MaxSymbolLen == 4

SymbolTexts == {NULL} \cup UNION {[1..n -> SymbolChars] : n \in 0..MaxSymbolLen}

Called(op, args) == [pc |-> "called", op |-> op, args |-> args, result |-> <<>>, calls |-> 0]

Calls ==
    {Called("compute_match_score", [trade1 |-> trade1, trade2 |-> trade2]) :
        trade1 \in LeftTrades, trade2 \in RightTrades}
    \cup {Called("identify_breaks", [trade1 |-> trade1, trade2 |-> trade2]) :
            trade1 \in LeftTrades, trade2 \in RightTrades \cup LeftTrades}
    \cup {Called("identify_breaks", [trade1 |-> trade, trade2 |-> trade]) :
            trade \in RightTrades}
    \cup {Called("find_best_match",
                 [source_trade |-> SourceTrade, candidate_trades |-> candidate_trades,
                  min_score |-> min_score]) :
            candidate_trades \in CandidateLists, min_score \in MinScores}
    \cup {Called("normalize_symbol", [symbol |-> symbol]) : symbol \in SymbolTexts}

Returned(w, result) == [w EXCEPT !.pc = "returned", !.result = result, !.calls = @ + 1]

ComputeMatchScore(p) ==
    /\ work[p].pc = "called"
    /\ work[p].op = "compute_match_score"
    /\ work' = [work EXCEPT ![p] =
                   Returned(@, compute_match_score(work[p].args.trade1, work[p].args.trade2))]
    /\ UNCHANGED <<trades, breaks, runs, sess, clock, env, invs, writes, requests>>

\* What run_reconciliation does with a pair (lines 45 and 59): the score,
\* then the breaks of its field scores.
IdentifyBreaks(p) ==
    /\ work[p].pc = "called"
    /\ work[p].op = "identify_breaks"
    /\ \E score \in {compute_match_score(work[p].args.trade1, work[p].args.trade2)} :
          work' = [work EXCEPT ![p] =
                      Returned(@, [score |-> score,
                                   breaks |-> _identify_breaks(
                                                  work[p].args.trade1, work[p].args.trade2,
                                                  score.field_scores, env, clock).list])]
    /\ UNCHANGED <<trades, breaks, runs, sess, clock, env, invs, writes, requests>>

FindBestMatch(p) ==
    /\ work[p].pc = "called"
    /\ work[p].op = "find_best_match"
    /\ work' = [work EXCEPT ![p] =
                   Returned(@, find_best_match(work[p].args.source_trade,
                                               work[p].args.candidate_trades,
                                               work[p].args.min_score))]
    /\ UNCHANGED <<trades, breaks, runs, sess, clock, env, invs, writes, requests>>

NormalizeSymbol(p) ==
    /\ work[p].pc = "called"
    /\ work[p].op = "normalize_symbol"
    /\ work' = [work EXCEPT ![p] = Returned(@, normalize_symbol(work[p].args.symbol))]
    /\ UNCHANGED <<trades, breaks, runs, sess, clock, env, invs, writes, requests>>

\* A later run passes the stored symbol to normalize_symbol again.
NormalizeAgain(p) ==
    /\ work[p].pc = "returned"
    /\ work[p].op = "normalize_symbol"
    /\ work[p].calls = 1
    /\ work' = [work EXCEPT ![p] = [@ EXCEPT !.pc = "called", !.args.symbol = work[p].result]]
    /\ UNCHANGED <<trades, breaks, runs, sess, clock, env, invs, writes, requests>>

-----------------------------------------------------------------------------

(* Specifications *)

Init ==
    /\ work = [p \in Procs |-> IdleWork]
    /\ requests = 0
    /\ trades = SeedTrades
    /\ breaks = <<>>
    /\ runs = <<>>
    /\ sess = [p \in Procs |-> Idle]
    /\ clock = 0
    /\ env \in EnvChoices
    /\ invs = <<>>
    /\ writes = {}

Step(p, task_inputs, api_inputs) ==
    \/ \E input \in task_inputs : TaskStart(p, input[1], input[2], input[3])
    \/ \E input \in api_inputs : ApiStart(p, input[1], input[2], input[3])
    \/ Fetch1(p)
    \/ Fetch2(p)
    \/ Match(p)
    \/ Commit(p)
    \/ CommitFails(p)
    \/ TaskCompletes(p)
    \/ TaskFails(p)
    \/ ApiFails(p)

\* One worker: invocations follow one another.
Next == (Step(1, TaskInputs, ApiInputs) \/ Tick) /\ UNCHANGED <<work, requests>>

Spec == Init /\ [][Next]_vars

\* Two workers, each with a session of its own, under default configuration.
InitPar == Init /\ env = DefaultEnv

NextPar == (\E p \in Procs : Step(p, ParTaskInputs, ParApiInputs)) /\ UNCHANGED <<work, requests>>

SpecPar == InitPar /\ [][NextPar]_vars

ElapseMinutes == 250
MaxElapses == 2

\* Hours pass while no reconciliation is running.
Elapse ==
    /\ \A p \in Procs : sess[p].pc \in {"idle", "done"}
    /\ clock < MaxElapses * ElapseMinutes
    /\ clock' = clock + ElapseMinutes
    /\ UNCHANGED <<trades, breaks, runs, sess, env, invs, writes, work, requests>>

\* pnl_impact is a column no component computes: it is supplied from outside.
PnlChoices == {Rat(-150000, 1), Rat(100000, 1)}

PnlSupplied(break_id, pnl_impact) ==
    /\ break_id \in DOMAIN breaks
    /\ breaks[break_id].pnl_impact = NoScore
    /\ requests < MaxRequests
    /\ requests' = requests + 1
    /\ breaks' = [breaks EXCEPT ![break_id].pnl_impact = pnl_impact]
    /\ UNCHANGED <<trades, runs, sess, clock, env, invs, writes, work>>

\* The reconciliation of the day whose breaks the workflow then handles.
FlowInput == <<5, "oms", "custodian">>

FlowRun(p) ==
    /\ invs = <<>>
    /\ TaskStart(p, FlowInput[1], FlowInput[2], FlowInput[3])

\* One worker for the jobs, one session at a time for the requests.  The
\* reconciliation task, the sweeps, the routing and remediation requests
\* and the passing of time interleave freely.
InitFlow == Init /\ env = DefaultEnv

NextFlow ==
    \/ /\ \/ FlowRun(1)
          \/ Fetch1(1)
          \/ Fetch2(1)
          \/ Match(1)
          \/ Commit(1)
          \/ TaskCompletes(1)
       /\ UNCHANGED <<work, requests>>
    \/ SweepStart(1)
    \/ SweepCommit(1)
    \/ \E break_id \in 1..(Len(breaks) + 1) : RouteStart(2, break_id)
    \/ RouteCommit(2)
    \/ \E break_id \in 1..(Len(breaks) + 1) : RemediateStart(2, break_id)
    \/ RemediateCommit(2)
    \/ \E break_id \in DOMAIN breaks : \E pnl_impact \in PnlChoices :
          PnlSupplied(break_id, pnl_impact)
    \/ Elapse

SpecFlow == InitFlow /\ [][NextFlow]_vars

\* The beat schedule starts check_sla_breaches every 15 minutes, and a job
\* that has run its query goes on to its commit.
\* The requests are for breaks that exist.
NextSweep ==
    \/ /\ \/ FlowRun(1)
          \/ Fetch1(1)
          \/ Fetch2(1)
          \/ Match(1)
          \/ Commit(1)
          \/ TaskCompletes(1)
       /\ UNCHANGED <<work, requests>>
    \/ SweepStart(1)
    \/ SweepCommit(1)
    \/ \E break_id \in DOMAIN breaks : RouteStart(2, break_id)
    \/ RouteCommit(2)
    \/ \E break_id \in DOMAIN breaks : RemediateStart(2, break_id)
    \/ RemediateCommit(2)
    \/ Elapse

SpecSweep ==
    InitFlow /\ [][NextSweep]_vars /\ WF_vars(SweepStart(1)) /\ WF_vars(SweepCommit(1))

\* One call of a function of the matcher or the normalizer on each input.
InitCalls ==
    /\ work \in {[p \in Procs |-> IF p = 1 THEN call ELSE IdleWork] : call \in Calls}
    /\ requests = 0
    /\ trades = SeedTrades
    /\ breaks = <<>>
    /\ runs = <<>>
    /\ sess = [p \in Procs |-> Idle]
    /\ clock = 0
    /\ env = DefaultEnv
    /\ invs = <<>>
    /\ writes = {}

NextCalls ==
    \/ ComputeMatchScore(1)
    \/ IdentifyBreaks(1)
    \/ FindBestMatch(1)
    \/ NormalizeSymbol(1)
    \/ NormalizeAgain(1)

SpecCalls == InitCalls /\ [][NextCalls]_vars

\* The overdue listing is requested again and again while time passes
\* after the reconciliation of the day; nothing else touches the breaks.
NextOverdue ==
    \/ /\ \/ FlowRun(1)
          \/ Fetch1(1)
          \/ Fetch2(1)
          \/ Match(1)
          \/ Commit(1)
          \/ TaskCompletes(1)
       /\ UNCHANGED <<work, requests>>
    \/ OverdueStart(2)
    \/ OverdueCommit(2)
    \/ Elapse

SpecOverdue == InitFlow /\ [][NextOverdue]_vars

\* Ingestion calls that follow one another.
NextIngest ==
    \/ \E feed \in Feeds : IngestStart(1, feed)
    \/ IngestRecord(1)
    \/ IngestCommit(1)

SpecIngest == InitFlow /\ [][NextIngest]_vars

\* Ingestion calls of two workers that overlap in time.
NextIngestPar ==
    \E p \in Procs :
        \/ \E feed \in Feeds : IngestStart(p, feed)
        \/ IngestRecord(p)
        \/ IngestCommit(p)

SpecIngestPar == InitFlow /\ [][NextIngestPar]_vars

-----------------------------------------------------------------------------
(* Pairing *)

Matched_ids == {id \in DOMAIN trades : trades[id].is_matched}

Mutual(id) ==
    /\ trades[id].matched_trade_id \in DOMAIN trades
    /\ trades[trades[id].matched_trade_id].is_matched
    /\ trades[trades[id].matched_trade_id].matched_trade_id = id

NoSharedPartner ==
    \A a, b \in Matched_ids :
        a # b => trades[a].matched_trade_id # trades[b].matched_trade_id

PoolExclusion(p) ==
    \A i, j \in DOMAIN sess[p].pairs :
        i # j => sess[p].pairs[i].trade2 # sess[p].pairs[j].trade2

\* C1: after any sequence of reconciliation runs, over any trade date and
\* ordered source pair, every matched trade names exactly one trade that is
\* matched and points back to it, no trade is the matched_trade_id of two
\* different trades, and within one run no source2 trade is paired with more
\* than one source1 trade.
C1_OneToOnePairing ==
    /\ \A id \in Matched_ids : Mutual(id)
    /\ NoSharedPartner
    /\ \A p \in Procs : PoolExclusion(p)

\* C2: when two runs execute in parallel, each in its own session, over
\* overlapping unmatched trades, the committed state still has every matched
\* trade in exactly one mutual pair and no trade referenced as
\* matched_trade_id by two different trades.
C2_ParallelOneToOne ==
    (\A i \in DOMAIN invs : invs[i].source1 # invs[i].source2)
        => (NoSharedPartner /\ \A id \in Matched_ids : Mutual(id))

-----------------------------------------------------------------------------
(* Earlier matches *)

InvocationOf(p) == invs[sess[p].inv]

\* C3: once a trade has been committed as matched, no run executed after
\* that, for any trade date and source pair, loads it as a source trade or a
\* candidate, changes its is_matched, matched_trade_id or match_confidence,
\* or creates a new break for it.
C3_MatchedNeverReconsidered ==
    /\ \A p \in Procs :
          sess[p].inv # 0 =>
             /\ DOMAIN sess[p].objs \cap InvocationOf(p).matched_before = {}
             /\ \A k \in DOMAIN sess[p].pending :
                   sess[p].pending[k].trade_id \notin InvocationOf(p).matched_before
    /\ \A w \in writes :
          w.column \in MatchColumns => w.trade \notin invs[w.inv].matched_before
    /\ \A k \in DOMAIN breaks :
          /\ breaks[k].trade_id \notin invs[breaks[k].inv].matched_before
          /\ breaks[k].matched_trade_id \notin invs[breaks[k].inv].matched_before

\* A second run has gone through over a date and a source of a trade that was
\* matched before it started, and has matched or reported other trades.
C3_Witness ==
    \E p \in Procs :
        /\ sess[p].inv = 2
        /\ sess[p].outcome = "returned"
        /\ DOMAIN sess[p].objs # {}
        /\ \E w \in writes : w.inv = 2
        /\ \E id \in InvocationOf(p).matched_before :
              /\ trades[id].trade_date.day = sess[p].day
              /\ trades[id].source_system \in {sess[p].source1, sess[p].source2}

-----------------------------------------------------------------------------
(* Statistics *)

Returns(p) == sess[p].pc \in {"commit", "committed"} \/ sess[p].outcome = "returned"

\* C4: for every run_reconciliation call the returned stats satisfy
\* auto_matched + manual_review + unmatched_source1 = number of source1
\* trades loaded, and auto_matched + manual_review + unmatched_source2 =
\* number of source2 trades loaded.
C4_StatsComplete ==
    \A p \in Procs :
        Returns(p) =>
           /\ sess[p].stats.auto_matched + sess[p].stats.manual_review
                 + sess[p].stats.unmatched_source1 = Len(sess[p].trades1)
           /\ sess[p].stats.auto_matched + sess[p].stats.manual_review
                 + sess[p].stats.unmatched_source2 = Len(sess[p].trades2)

-----------------------------------------------------------------------------
(* Failure *)

Persisted(inv) ==
    \/ \E w \in writes : w.inv = inv
    \/ \E k \in DOMAIN breaks : breaks[k].inv = inv

\* C5: a reconciliation run is all-or-nothing: if it fails, on a persistence
\* error or any exception raised during matching, none of its pending writes
\* (match state, persisted normalisation, breaks) is persisted, and a run
\* record with status failed never coexists with trades matched or breaks
\* created by that same run.
C5_AllOrNothing ==
    /\ \A p \in Procs : sess[p].outcome = "raised" => ~Persisted(sess[p].inv)
    /\ \A r \in DOMAIN runs : runs[r].status = "failed" => ~Persisted(runs[r].inv)

TaskEnded(p) == sess[p].kind = "task" /\ sess[p].pc = "done"

\* C6: whenever the matching step of the task raises, a database error at
\* commit included, the run record ends with status failed, the error
\* message and end_time set, and the exception re-raised; no run record is
\* left with status running once its task has ended.
C6_FailureRecorded ==
    \A p \in Procs :
        TaskEnded(p) =>
           /\ runs[sess[p].run_id].status # "running"
           /\ sess[p].outcome = "raised" =>
                 /\ runs[sess[p].run_id].status = "failed"
                 /\ runs[sess[p].run_id].error_message = sess[p].error
                 /\ runs[sess[p].run_id].end_time # NoTime

HasRunRecord(inv) == \E r \in DOMAIN runs : runs[r].inv = inv

\* C7: every reconciliation invocation, the task and the POST
\* /reconciliation/run endpoint alike, creates a run record with status
\* running before matching executes, so every committed set of matches and
\* breaks has a corresponding run record.
C7_RunRecordForEveryInvocation ==
    /\ \A p \in Procs : sess[p].pc \in {"fetch1", "fetch2", "match"} =>
          \E r \in DOMAIN runs : runs[r].inv = sess[p].inv /\ runs[r].status = "running"
    /\ \A i \in DOMAIN invs : Persisted(i) => HasRunRecord(i)

-----------------------------------------------------------------------------
(* Breaks of a matched pair *)

\* The sessions whose run has derived its breaks and holds them pending.
Derived == {p \in Procs : sess[p].pc = "commit"}

BreaksOf(p, pair) == SubSeq(sess[p].pending, pair.first, pair.last)

\* C8: every pair matched by run_reconciliation whose overall score is below
\* 1.0 has at least one TradeBreak created for it in that run.
C8_BreakForEveryImperfectPair ==
    \A p \in Derived :
        \A k \in DOMAIN sess[p].pairs :
            RatLt(sess[p].pairs[k].score.overall_score, One)
               => Len(BreaksOf(p, sess[p].pairs[k])) >= 1

TypeOf ==
    [symbol |-> "symbol_mismatch", trade_date |-> "trade_date_mismatch",
     side |-> "side_mismatch", quantity |-> "quantity_mismatch",
     price |-> "price_mismatch", counterparty |-> "counterparty_mismatch"]

\* The fields of a pair that are due a break, in the order of the weights.
DueFields(p, pair) ==
    SelectSeq(Fields, LAMBDA f :
        /\ RatLt(pair.score.field_scores[f], Rat(99, 100))
        /\ sess[p].objs[pair.trade1][f] # sess[p].objs[pair.trade2][f])

\* C9: for a matched pair the deriver emits exactly one break for each scored
\* field whose score is < 0.99 and whose raw values are unequal, and none for
\* any other field; each has break_type <field>_mismatch, status OPEN,
\* expected_value and actual_value rendering the values of t1 and t2,
\* priority_score = 1 - field score, and the breaks come in the field order
\* symbol, trade_date, side, quantity, price, counterparty.
C9_BreaksPerField ==
    \A p \in Derived :
        \A k \in DOMAIN sess[p].pairs :
            LET pair == sess[p].pairs[k]
                due == DueFields(p, pair)
                got == BreaksOf(p, pair)
            IN  /\ Len(got) = Len(due)
                /\ \A i \in DOMAIN got :
                      /\ got[i].field_name = due[i]
                      /\ got[i].break_type = TypeOf[due[i]]
                      /\ got[i].status = "open"
                      /\ got[i].trade_id = pair.trade1
                      /\ got[i].matched_trade_id = pair.trade2
                      /\ got[i].expected_value = StrValue(sess[p].objs[pair.trade1], due[i])
                      /\ got[i].actual_value = StrValue(sess[p].objs[pair.trade2], due[i])
                      /\ got[i].priority_score = RatSub(One, pair.score.field_scores[due[i]])

\* A pair has been derived with a break on three of its fields and none on
\* the others.
C9_Witness ==
    \E p \in Derived :
        \E k \in DOMAIN sess[p].pairs :
            /\ Len(BreaksOf(p, sess[p].pairs[k])) = 3
            /\ Len(DueFields(p, sess[p].pairs[k])) = 3

FieldBreaks(p) ==
    {k \in DOMAIN sess[p].pending : sess[p].pending[k].break_type # "missing_trade"}

SeverityRule(b) ==
    CASE b.field_name \in {"quantity", "side"} ->
            (b.variance = NoScore \/ RatLt(Zero, b.variance)) => b.severity = "critical"
      [] b.field_name = "price" ->
            b.severity = IF RatLt(One, b.variance_pct) THEN "high" ELSE "medium"
      [] b.field_name \in {"gross_amount", "net_amount"} -> b.severity = "medium"
      [] OTHER -> b.severity = "low"

DeadlineRule(b, now) ==
    b.sla_deadline = now + (CASE b.severity = "critical" -> 30
                              [] b.severity = "high" -> 120
                              [] OTHER -> 480)

VarianceRule(b, v1, v2) ==
    /\ b.variance = RatAbs(RatSub(v1, v2))
    /\ b.variance_pct =
          RatMul(RatDiv(b.variance, RatMax(RatMax(RatAbs(v1), RatAbs(v2)), One)), Rat(100, 1))
    /\ RatGeq(b.variance_pct, Zero)

\* C10: every field-mismatch break gets severity CRITICAL for quantity or
\* side (variance positive or unknown), HIGH for price when variance_pct >
\* 1.0 and MEDIUM for price otherwise, MEDIUM for gross_amount/net_amount
\* and LOW for any other field; under default configuration its
\* sla_deadline is the derivation-time now plus 30 minutes for CRITICAL, 120
\* for HIGH and 480 for MEDIUM or LOW; numeric fields carry variance =
\* |v1 - v2| and variance_pct = variance / max(|v1|,|v2|,1) * 100 >= 0.
C10_SeverityDeadlineVariance ==
    \A p \in Derived :
        \A k \in FieldBreaks(p) :
            LET b == sess[p].pending[k]
            IN  /\ SeverityRule(b)
                /\ env = DefaultEnv => DeadlineRule(b, sess[p].derived_at)
                /\ b.field_name \in NumericFields =>
                      VarianceRule(b, NumValue(sess[p].objs[b.trade_id], b.field_name),
                                   NumValue(sess[p].objs[b.matched_trade_id], b.field_name))

\* Under default configuration a run has derived, some minutes after the
\* start, a price break of six thousandths on a price below one, and a break
\* of low severity.
C10_Witness ==
    /\ env = DefaultEnv
    /\ \E p \in Derived :
          /\ sess[p].derived_at > 0
          /\ \E k \in FieldBreaks(p) :
                /\ sess[p].pending[k].field_name = "price"
                /\ sess[p].pending[k].severity = "medium"
                /\ sess[p].pending[k].variance_pct = Rat(3, 5)
          /\ \E k \in FieldBreaks(p) : sess[p].pending[k].severity = "low"

-----------------------------------------------------------------------------
(* Deadlines *)

\* C11: for every break persisted by a reconciliation run, field-mismatch or
\* missing_trade, sla_deadline is strictly greater than created_at.
C11_DeadlineAfterCreation ==
    \A k \in DOMAIN breaks : breaks[k].sla_deadline > breaks[k].created_at

-----------------------------------------------------------------------------
(* Break lifecycle *)

\* C12: in every reachable state, after any sequence of reconciliation,
\* routing, SLA-sweep and auto-remediation operations, every break whose
\* status is RESOLVED has resolved_at set.
C12_ResolvedHasResolvedAt ==
    \A k \in DOMAIN breaks :
        breaks[k].status = "resolved" => breaks[k].resolved_at # NoTime

\* C13: under any interleaving of SLA sweeps, routing requests and
\* auto-remediation requests in separate sessions, a break's persisted status
\* becomes ESCALATED only when its immediately preceding persisted status was
\* OPEN or IN_PROGRESS; a break that is RESOLVED or ACCEPTED in the database
\* is never overwritten to ESCALATED.
C13_EscalatedOnlyFromActive ==
    [][\A k \in DOMAIN breaks :
          (breaks'[k].status = "escalated" /\ breaks[k].status # "escalated")
             => breaks[k].status \in {"open", "in_progress"}]_vars

\* The step of session p is the commit of a routing request.
RouteCommits(p) == work[p].pc = "route_commit" /\ work'[p].pc = "done"

\* C14: route_exception changes a break's status only by the transition
\* OPEN -> IN_PROGRESS: routing an OPEN break sets assigned_to and moves it
\* to IN_PROGRESS, and routing a break that is not OPEN leaves its status
\* unchanged.
C14_RouteOnlyOpens ==
    [][\A p \in Procs :
          RouteCommits(p) =>
             IF breaks[work[p].break_id].status = "open"
             THEN /\ breaks'[work[p].break_id].status = "in_progress"
                  /\ breaks'[work[p].break_id].assigned_to = work[p].assigned_to
             ELSE breaks'[work[p].break_id].status = breaks[work[p].break_id].status]_vars

-----------------------------------------------------------------------------
(* Routing *)

\* The assignee and the minutes the routing table of the claim gives a break.
ExpectedRoute(b) ==
    IF b.severity = "critical"
    THEN [assign_to |-> "senior_ops_manager", minutes |-> 15]
    ELSE IF /\ b.severity = "high"
            /\ b.pnl_impact # NoScore
            /\ RatLt(Rat(100000, 1), RatAbs(b.pnl_impact))
    THEN [assign_to |-> "head_of_trading", minutes |-> 30]
    ELSE IF b.break_type = "missing_trade"
    THEN [assign_to |-> "trade_support_team", minutes |-> 60]
    ELSE IF b.break_type \in {"price_mismatch", "quantity_mismatch"}
    THEN [assign_to |-> "ops_analyst", minutes |-> 120]
    ELSE [assign_to |-> "ops_team", minutes |-> 240]

\* No other session has written the assignee of the break since session p
\* loaded it.
AssigneeAsLoaded(p, id) == breaks[id].assigned_to = work[p].loaded[id].assigned_to

\* The step of session p takes a routing request up to its commit or its 404.
RouteBegins(p) ==
    work[p].pc \in {"idle", "done"} /\ work'[p].op = "route" /\ work'[p] # work[p]

\* C15: route_exception on an existing break assigns it by the first rule
\* that matches in the order CRITICAL -> senior_ops_manager (15 min); HIGH
\* and |pnl_impact| > 100000 -> head_of_trading (30); missing_trade ->
\* trade_support_team (60); price_mismatch or quantity_mismatch ->
\* ops_analyst (120); otherwise ops_team (240).  'No routing rule matched'
\* is unreachable, the returned escalation_time is now plus the rule's
\* minutes, and an unknown break_id is answered NotFound and changes no break.
\* The commit leaves the chosen assignee on the row it read and touches no
\* other break.
C15_FirstMatchRouting ==
    [][\A p \in Procs :
          /\ work'[p].outcome # "no_rule_matched"
          /\ RouteBegins(p) =>
                /\ breaks' = breaks
                /\ IF work'[p].break_id \notin DOMAIN breaks
                   THEN work'[p].pc = "done" /\ work'[p].outcome = "not_found"
                   ELSE /\ work'[p].pc = "route_commit"
                        /\ work'[p].assigned_to =
                              ExpectedRoute(breaks[work'[p].break_id]).assign_to
                        /\ work'[p].escalation_time =
                              clock + ExpectedRoute(breaks[work'[p].break_id]).minutes
          /\ RouteCommits(p) =>
                /\ work'[p].outcome = "returned"
                /\ work'[p].assigned_to = work[p].assigned_to
                /\ work'[p].escalation_time = work[p].escalation_time
                /\ work[p].objs[work[p].break_id].assigned_to = work[p].assigned_to
                /\ AssigneeAsLoaded(p, work[p].break_id)
                      => breaks'[work[p].break_id].assigned_to = work[p].assigned_to
                /\ \A k \in DOMAIN breaks :
                      k # work[p].break_id => breaks'[k] = breaks[k]]_vars

\* A HIGH break whose pnl_impact was supplied above the limit has been routed
\* to head_of_trading some time after the run, and the response is out.
C15_Witness ==
    \E p \in Procs :
        /\ work[p].op = "route"
        /\ work[p].outcome = "returned"
        /\ work[p].assigned_to = "head_of_trading"
        /\ work[p].escalation_time > 30
        /\ breaks[work[p].break_id].assigned_to = "head_of_trading"

-----------------------------------------------------------------------------
(* SLA sweep *)

\* The escalation map of the claim.
ExpectedTarget(assignee) ==
    IF assignee = "ops_analyst" THEN "senior_ops_manager"
    ELSE IF assignee \in {"trade_support_team", "ops_team"} THEN "ops_manager"
    ELSE "head_of_operations"

\* The breaks a sweep is to escalate.
Due ==
    {k \in DOMAIN breaks :
        /\ breaks[k].status \in {"open", "in_progress"}
        /\ breaks[k].sla_deadline # NoTime
        /\ breaks[k].sla_deadline < clock}

SweepBegins(p) ==
    work[p].pc \in {"idle", "done"} /\ work'[p].op = "sweep" /\ work'[p] # work[p]

SweepCommits(p) == work[p].pc = "sweep_commit" /\ work'[p].pc = "done"

\* C16: check_sla_breaches escalates exactly the breaks that are OPEN or
\* IN_PROGRESS with a non-null sla_deadline earlier than now: each gets
\* status ESCALATED and assigned_to = the escalation target of its previous
\* assignee (ops_analyst -> senior_ops_manager; trade_support_team, ops_team
\* -> ops_manager; anyone else or no one -> head_of_operations); the
\* returned list has exactly one entry per such break, no returned break is
\* left OPEN or IN_PROGRESS, and every other break is unchanged.
C16_SweepEscalatesOverdue ==
    [][\A p \in Procs :
          /\ SweepBegins(p) =>
                /\ breaks' = breaks
                /\ {e.break_id : e \in work'[p].escalated} = Due
                /\ Cardinality(work'[p].escalated) = Cardinality(Due)
                /\ DOMAIN work'[p].objs = Due
                /\ work'[p].pc = IF Due = {} THEN "done" ELSE "sweep_commit"
                /\ \A e \in work'[p].escalated :
                      /\ e.escalated_to = ExpectedTarget(breaks[e.break_id].assigned_to)
                      /\ e.original_assignee =
                            IF breaks[e.break_id].assigned_to = None THEN "unassigned"
                            ELSE breaks[e.break_id].assigned_to
          /\ SweepCommits(p) =>
                /\ work'[p].escalated = work[p].escalated
                /\ work'[p].outcome = "returned"
                /\ \A k \in DOMAIN breaks :
                      IF k \in DOMAIN work[p].loaded
                      THEN /\ breaks'[k].status = "escalated"
                           /\ AssigneeAsLoaded(p, k) =>
                                 breaks'[k].assigned_to =
                                     ExpectedTarget(work[p].loaded[k].assigned_to)
                      ELSE breaks'[k] = breaks[k]]_vars

\* A sweep has returned after escalating a routed break and an unrouted one,
\* while another break, not yet due, is still OPEN.
C16_Witness ==
    \E p \in Procs :
        /\ work[p].op = "sweep"
        /\ work[p].outcome = "returned"
        /\ \E e \in work[p].escalated :
              /\ e.original_assignee = "trade_support_team"
              /\ e.escalated_to = "ops_manager"
              /\ breaks[e.break_id].status = "escalated"
              /\ breaks[e.break_id].assigned_to = "ops_manager"
        /\ \E e \in work[p].escalated : e.original_assignee = "unassigned"
        /\ \E k \in DOMAIN breaks : breaks[k].status = "open"

-----------------------------------------------------------------------------
(* Auto-remediation *)

\* The action and the auto_executable flag the table of the claim gives.
ExpectedSuggestion(b) ==
    IF b.break_type = "missing_trade"
    THEN [action |-> "request_missing_trade_resend", auto_executable |-> FALSE]
    ELSE IF b.break_type = "counterparty_mismatch"
    THEN [action |-> "normalize_counterparty_alias", auto_executable |-> TRUE]
    ELSE IF b.break_type = "price_mismatch" /\ b.variance_pct # NoScore
            /\ RatLt(b.variance_pct, Rat(1, 10))
    THEN [action |-> "accept_minor_price_rounding", auto_executable |-> TRUE]
    ELSE [action |-> "manual_investigation", auto_executable |-> FALSE]

\* What the claim says apply_action makes of break b.
ExpectedApplied(b, action, actor, after) ==
    CASE action = "normalize_counterparty_alias" ->
            /\ after.applied
            /\ after.break_record.status = "in_progress"
            /\ after.break_record.resolved_by = b.resolved_by
      [] action = "accept_minor_price_rounding" ->
            /\ after.applied
            /\ after.break_record.status = "resolved"
            /\ after.break_record.resolved_by = actor
      [] OTHER -> ~after.applied /\ after.break_record = b

Actions ==
    {"request_missing_trade_resend", "normalize_counterparty_alias",
     "accept_minor_price_rounding", "manual_investigation"}

RemediateBegins(p) ==
    work[p].pc \in {"idle", "done"} /\ work'[p].op = "remediate" /\ work'[p] # work[p]

-----------------------------------------------------------------------------
(* Periodic sweep *)

\* The ids of the breaks one reconciliation of the day leaves.
BreakIds == 1..4

IsDue(k) == k \in DOMAIN breaks /\ k \in Due

StatusIn(k, statuses) == k \in DOMAIN breaks /\ breaks[k].status \in statuses

\* C17: under the periodic SLA sweep (weak fairness on the scheduled
\* check_sla_breaches job), every break that is OPEN or IN_PROGRESS with a
\* non-null sla_deadline in the past eventually has status ESCALATED, even
\* when routing and auto-remediation requests interleave with the sweeps.
C17_OverdueEventuallyEscalated ==
    \A k \in BreakIds : IsDue(k) ~> StatusIn(k, {"escalated"})

\* C17, amended: every such break eventually has status ESCALATED, or has
\* been RESOLVED by auto-remediation before a sweep reached it.
C17_OverdueEventuallyEscalatedOrResolved ==
    \A k \in BreakIds : IsDue(k) ~> StatusIn(k, {"escalated", "resolved"})

\* After the passing of its deadline a routed break is persisted ESCALATED
\* by a sweep, while another break has been RESOLVED.
C17_Witness ==
    /\ clock > 0
    /\ \E k \in DOMAIN breaks :
          /\ breaks[k].status = "escalated"
          /\ breaks[k].assigned_to = "ops_manager"
    /\ \E k \in DOMAIN breaks : breaks[k].status = "resolved"

-----------------------------------------------------------------------------
(* Ingestion claims *)

\* The identities a call fetched from a source it connected to and whose
\* records normalize and validate.
FetchedIdentities(w) ==
    UNION {{normalize_trade(source, w.feed[source].raw_trades[i]) :
               i \in {j \in DOMAIN w.feed[source].raw_trades :
                         /\ ~Raises(source, w.feed[source].raw_trades[j])
                         /\ validate_trade(
                                normalize_trade(source, w.feed[source].raw_trades[j]))}} :
           source \in {c \in Range(connectors) : w.feed[c].connect}}

StoredAs(identity) == {id \in DOMAIN trades : SameIdentity(trades[id], identity)}

\* C19: ingestion is deduplicated by identity: no two persisted trades share
\* (source_system, source_trade_id), and once a call of ingest_all_sources
\* has returned, every valid identity it fetched is persisted exactly once,
\* whether the identity was stored before or came twice in the batch.
C19_IngestionDeduplicated ==
    /\ \A a, b \in DOMAIN trades : SameIdentity(trades[a], trades[b]) => a = b
    /\ \A p \in Procs :
          work[p].op = "ingest" /\ work[p].pc = "done" =>
              \A identity \in FetchedIdentities(work[p]) :
                  Cardinality(StoredAs(identity)) = 1

\* The pending trades of a commit whose identity no row of the table has.
NotStored(pending) ==
    {i \in DOMAIN pending :
        \A id \in DOMAIN trades : ~SameIdentity(pending[i], trades[id])}

\* A commit whose batch holds each identity once and, among them, one that
\* another writer has stored since this writer looked for it.
SecondWriter(p) ==
    /\ work[p].op = "ingest"
    /\ work[p].pc = "commit"
    /\ work'[p] # work[p]
    /\ \A i, j \in DOMAIN work[p].pending :
          SameIdentity(work[p].pending[i], work[p].pending[j]) => i = j
    /\ NotStored(work[p].pending) # DOMAIN work[p].pending

\* C20: when two ingestion jobs insert the same identity, the second
\* writer's commit skips the duplicate alone: the other new trades of its
\* batch are persisted and are the count of its result for the source.
C20_DuplicateIsBenign ==
    [][\A p \in Procs :
          SecondWriter(p) =>
              /\ \A i \in NotStored(work[p].pending) :
                    \E id \in DOMAIN trades' :
                        SameIdentity(trades'[id], work[p].pending[i])
              /\ work'[p].results[connectors[work[p].source]]
                     = Cardinality(NotStored(work[p].pending))]_vars

-----------------------------------------------------------------------------
(* Missing trades *)

\* The missing_trade breaks a run holds or has stored for a trade.
MissingPending(p, id) ==
    {k \in DOMAIN sess[p].pending :
        sess[p].pending[k].break_type = "missing_trade" /\ sess[p].pending[k].trade_id = id}

MissingStored(p, id) ==
    {k \in DOMAIN breaks :
        /\ breaks[k].inv = sess[p].inv
        /\ breaks[k].break_type = "missing_trade"
        /\ breaks[k].trade_id = id}

\* What a missing_trade break of trade id says in a run over (source1, source2).
MissingShape(p, b, id) ==
    /\ b.status = "open"
    /\ b.matched_trade_id = NoId
    /\ \/ id \in Range(sess[p].trades1)
          /\ b.expected_value = <<"T","r","a","d","e"," ","i","n"," ">> \o SourceText(sess[p].source2)
       \/ id \in Range(sess[p].trades2)
          /\ b.expected_value = <<"T","r","a","d","e"," ","i","n"," ">> \o SourceText(sess[p].source1)

LoadedIds(p) == Range(sess[p].trades1) \cup Range(sess[p].trades2)

-----------------------------------------------------------------------------
(* Best match *)

CallReturned(p, op) == work[p].pc = "returned" /\ work[p].op = op

ScoreOf(w, i) ==
    compute_match_score(w.args.source_trade, w.args.candidate_trades[i]).overall_score

ThresholdOf(w) ==
    IF w.args.min_score # NoScore THEN w.args.min_score ELSE manual_review_threshold

\* C22: find_best_match returns the candidate with the highest overall
\* score among those at or above the threshold (min_score if given, else
\* the manual-review threshold), the earliest of them when several hold
\* that score, and (None, None) when no candidate reaches the threshold.
C22_BestMatchEarliestHighest ==
    \A p \in Procs :
        CallReturned(p, "find_best_match") =>
            \E w \in {work[p]} :
                IF \A i \in DOMAIN w.args.candidate_trades :
                       RatLt(ScoreOf(w, i), ThresholdOf(w))
                THEN w.result = 0
                ELSE /\ w.result \in DOMAIN w.args.candidate_trades
                     /\ RatGeq(ScoreOf(w, w.result), ThresholdOf(w))
                     /\ \A i \in DOMAIN w.args.candidate_trades :
                           /\ RatGeq(ScoreOf(w, w.result), ScoreOf(w, i))
                           /\ i < w.result => RatLt(ScoreOf(w, i), ScoreOf(w, w.result))

\* A call with a min_score has returned the first of two candidates that
\* hold the highest score, after a lower one that reached the threshold too.
C22_Witness ==
    \E p \in Procs :
        /\ CallReturned(p, "find_best_match")
        /\ work[p].args.min_score = Rat(99, 100)
        /\ work[p].result = 2
        /\ Len(work[p].args.candidate_trades) = 3
        /\ ScoreOf(work[p], 3) = ScoreOf(work[p], 2)
        /\ RatLt(ScoreOf(work[p], 1), ScoreOf(work[p], 2))
        /\ RatGeq(ScoreOf(work[p], 1), Rat(99, 100))

-----------------------------------------------------------------------------
(* Match score *)

\* The weighted sum of line 55, term by term.
Weighted(field_scores) ==
    RatAdd(RatMul(field_scores.symbol, Rat(25, 100)),
    RatAdd(RatMul(field_scores.trade_date, Rat(15, 100)),
    RatAdd(RatMul(field_scores.side, Rat(15, 100)),
    RatAdd(RatMul(field_scores.quantity, Rat(20, 100)),
    RatAdd(RatMul(field_scores.price, Rat(15, 100)),
           RatMul(field_scores.counterparty, Rat(10, 100)))))))

\* C23: compute_match_score returns the weighted sum of the six field
\* scores, which lies in [0, 1], and classifies it: at or above 0.95 a
\* match of level auto, else at or above 0.75 a match of level review, else
\* no match; a pair that differs in symbol, trade date and side is no match.
C23_WeightedSumClassified ==
    \A p \in Procs :
        CallReturned(p, "compute_match_score") =>
            \E r \in {work[p].result} :
                /\ DOMAIN r.field_scores = Range(Fields)
                /\ r.overall_score = Weighted(r.field_scores)
                /\ RatGeq(r.overall_score, Zero)
                /\ RatGeq(One, r.overall_score)
                /\ IF RatGeq(r.overall_score, Rat(95, 100))
                   THEN r.is_match /\ r.confidence_level = "auto"
                   ELSE IF RatGeq(r.overall_score, Rat(75, 100))
                   THEN r.is_match /\ r.confidence_level = "review"
                   ELSE ~r.is_match /\ r.confidence_level = "no_match"
                /\ (/\ work[p].args.trade1.symbol # work[p].args.trade2.symbol
                    /\ work[p].args.trade1.trade_date.day # work[p].args.trade2.trade_date.day
                    /\ work[p].args.trade1.side # work[p].args.trade2.side)
                       => r.confidence_level = "no_match"

\* A pair that differs in symbol, trade date and side and in nothing else
\* has been scored.
C23_Witness ==
    \E p \in Procs :
        /\ CallReturned(p, "compute_match_score")
        /\ work[p].args.trade1.symbol = AAPL
        /\ work[p].args.trade2.symbol = TSLA
        /\ work[p].args.trade2.trade_date.day = 2
        /\ work[p].args.trade1.side = BUY
        /\ work[p].args.trade2.side = SELL
        /\ work[p].args.trade2.quantity = 100
        /\ work[p].args.trade2.price = 2000000
        /\ work[p].args.trade1.counterparty = work[p].args.trade2.counterparty
        /\ work[p].result.overall_score = Rat(45, 100)
        /\ work[p].result.confidence_level = "no_match"

-----------------------------------------------------------------------------
(* A trade against itself *)

Populated(trade) ==
    /\ Truthy(trade.symbol)
    /\ Truthy(trade.side)
    /\ Truthy(trade.counterparty)

-----------------------------------------------------------------------------
(* Quantity 100 against 105 *)

\* Two populated trades that are identical but for quantity 100 and 105.
QuantityPair(p) ==
    /\ CallReturned(p, "identify_breaks")
    /\ Populated(work[p].args.trade1)
    /\ work[p].args.trade1.quantity = 100
    /\ work[p].args.trade2.quantity = 105
    /\ [work[p].args.trade2 EXCEPT !.quantity = 100, !.id = work[p].args.trade1.id]
           = work[p].args.trade1

QuantityBreak(b, variance_pct) ==
    /\ b.break_type = "quantity_mismatch"
    /\ b.severity = "critical"
    /\ b.variance = Rat(5, 1)
    /\ b.variance_pct = variance_pct

\* C25 as stated: two trades identical except for quantity 100 versus 105
\* are matched at the review level and produce exactly one break, of type
\* quantity_mismatch, severity CRITICAL, variance 5 and variance_pct 5.0.
C25_QuantityBreakReviewFive ==
    \A p \in Procs :
        QuantityPair(p) =>
            /\ work[p].result.score.is_match
            /\ work[p].result.score.confidence_level = "review"
            /\ Len(work[p].result.breaks) = 1
            /\ QuantityBreak(work[p].result.breaks[1], Rat(5, 1))

\* C25 amended: two populated trades identical except for quantity 100
\* versus 105 are matched at the auto level (overall score 104/105) and
\* produce exactly one break, of type quantity_mismatch, severity CRITICAL,
\* variance 5 and variance_pct 5 / 105 * 100 = 100/21.
C25_QuantityBreakAuto ==
    \A p \in Procs :
        QuantityPair(p) =>
            /\ work[p].result.score.is_match
            /\ work[p].result.score.overall_score = Rat(104, 105)
            /\ work[p].result.score.confidence_level = "auto"
            /\ Len(work[p].result.breaks) = 1
            /\ QuantityBreak(work[p].result.breaks[1], Rat(100, 21))

\* AAPL BUY at 200.0 with GS, 100 against 105, has been paired and has a break.
C25_Witness ==
    \E p \in Procs :
        /\ QuantityPair(p)
        /\ work[p].args.trade1.symbol = AAPL
        /\ work[p].args.trade1.counterparty = GS
        /\ work[p].result.breaks # <<>>

-----------------------------------------------------------------------------
(* Normalizing twice *)

\* C26: normalize_symbol is idempotent on its output: passing a symbol it
\* returned through it again returns the same symbol, so a stored symbol
\* does not change when a later run normalizes it again.
C26_NormalizeSymbolIdempotent ==
    \A p \in Procs :
        (CallReturned(p, "normalize_symbol") /\ work[p].calls = 2)
            => work[p].result = work[p].args.symbol

-----------------------------------------------------------------------------
(* Resolution is final *)

Final == {"resolved", "accepted"}

\* C27: once a break is RESOLVED or ACCEPTED, no route_exception,
\* check_sla_breaches or auto-remediate operation gives it another status
\* or another assigned_to.
C27_ResolutionFinal ==
    [][\A id \in DOMAIN breaks :
          breaks[id].status \in Final =>
              /\ breaks'[id].status = breaks[id].status
              /\ breaks'[id].assigned_to = breaks[id].assigned_to]_vars

-----------------------------------------------------------------------------
(* Listing overdue exceptions *)

\* A step of the request GET /exceptions/overdue.
OverdueStep(p) == work'[p] # work[p] /\ work'[p].op = "sweep"

\* C28: listing the overdue exceptions through GET /exceptions/overdue is
\* read-only: no step of the request changes the status or the assigned_to
\* of a break, so a second call with nothing in between lists the same.
C28_OverdueListingReadOnly ==
    [][\A p \in Procs :
          OverdueStep(p) =>
              /\ DOMAIN breaks' = DOMAIN breaks
              /\ \A id \in DOMAIN breaks :
                    /\ breaks'[id].status = breaks[id].status
                    /\ breaks'[id].assigned_to = breaks[id].assigned_to]_vars

-----------------------------------------------------------------------------
(* Pairs across sources *)

\* C29: every pair run_reconciliation creates is of two distinct trades of
\* different source systems: no trade is matched to itself or to a trade
\* of its own source, whatever (trade_date, source1, source2) the API
\* accepts, source1 = source2 included.
C29_PairsAcrossSources ==
    \A id \in DOMAIN trades :
        trades[id].is_matched =>
            /\ trades[id].matched_trade_id # id
            /\ trades[id].matched_trade_id \in DOMAIN trades
            /\ trades[trades[id].matched_trade_id].source_system # trades[id].source_system

-----------------------------------------------------------------------------
(* Missing-trade breaks across runs *)

OpenMissing(id) ==
    {k \in DOMAIN breaks :
        /\ breaks[k].break_type = "missing_trade"
        /\ breaks[k].trade_id = id
        /\ breaks[k].status \in {"open", "in_progress", "escalated"}}

\* C30: after any sequence of reconciliation runs every trade has at most
\* one missing_trade break in an open status (OPEN, IN_PROGRESS,
\* ESCALATED), and a matched trade has none: a rerun over the same
\* (trade_date, source1, source2) adds no second missing_trade break for a
\* trade that is still unmatched.
C30_OneOpenMissingPerTrade ==
    \A id \in DOMAIN trades :
        /\ Cardinality(OpenMissing(id)) <= 1
        /\ trades[id].is_matched => OpenMissing(id) = {}

====
